---- MODULE Spec2Model ----
(***************************************************************************)
(* Verification model of the NPO financial-statement tool (SmartTrust):    *)
(* the Section 11 calculator and compliance report of npo_compliance.py,   *)
(* the unit aggregator of npo_data.py / npo_ui.py, the fund schedule of    *)
(* npo_excel.py and the validate / generate life cycle of npo_ui.py.       *)
(*                                                                         *)
(* Money is held in whole currency units.  A figure that the code obtains  *)
(* by multiplying with a percentage (0.85, the accumulation rate) is held  *)
(* in hundredths of a unit, so that it stays an exact integer; the fields  *)
(* concerned are named where they are computed.                            *)
(***************************************************************************)
EXTENDS Integers, Sequences, FiniteSets, TLC

(***************************************************************************)
(* Bounds of the model.                                                    *)
(***************************************************************************)
MaxAmount == 20
MaxExpenseItem == 9
MaxExpenses == 2
MaxCapital == 1
MaxRows == 2
MaxAssets == 2
MaxThreads == 2
MaxAggRows == 3
MaxFunds == 2
MaxGujRows == 3
MaxCsvRows == 2
MaxColumns == 4
MaxLoadRows == 1

(***************************************************************************)
(* Program constants.                                                      *)
(***************************************************************************)
RequiredPercent == 85
DefaultAccumulationPercent == 15

VARIABLES
    call,               \* arguments of the calculate_section_11_compliance call
    compliance_status,  \* the dict it returned, or NoResult before the call
    map_rows,           \* NPOApp.map_rows: the rows of the mapping tab
    ppe_tree,           \* the rows of NPOApp.ppe_tree (fixed assets)
    fund_tree,          \* the rows of NPOApp.fund_tree (funds movement)
    units_field,        \* org_vars['Units']: the unit names typed in, as a set
    cmb_unit_values,    \* the values offered by the "Filter Unit" combobox
    unit_var,           \* NPOApp.unit_var: the unit the filter shows
    is_validated,       \* NPOApp.is_validated
    btn_gen,            \* state of the generate button: "disabled" or "normal"
    gen_threads,        \* generate threads started and not yet run
    stop_pending,       \* stop_progress callbacks queued with root.after
    compliance_text,    \* what the compliance tab shows
    compliance_report,  \* the report built last, or NoResult
    unit_data,          \* the unit aggregator's last result, or NoResult
    ica_rows,           \* the rows written to the fund schedule (Schedule I)
    validated_data,    \* history: row sets validated since the rows last changed
    computed,           \* history: what the last compliance computation ran on
    last_validate,      \* history: how the last validate() on these rows ended
    loaded,             \* history: the last load_csv, while the table is as it left it
    sched_lines,        \* the lines written to Schedules VIII and IX, or NoResult
    guj_issues,         \* what check_gujarat_compliance returned, or NoResult
    df,                 \* the DataFrame load_tb read from the file, or NoResult
    load_result,        \* what load_tb or _validate_dataframe returned, or NoResult
    amount_check,       \* the verdicts of the amount validators on a text, or NoResult
    ppe_records,        \* the asset records generate() built, or NoResult
    effectiveness,      \* what calculate_program_effectiveness returned, or NoResult
    form_10b,           \* the figures refresh_10b computed last, or NoResult
    tb_check            \* what validate_tb_data said of the loaded rows, or NoResult

calcVars == <<call, compliance_status>>
tableVars == <<map_rows, ppe_tree, fund_tree>>
unitVars == <<units_field, cmb_unit_values, unit_var>>
lockVars == <<is_validated, btn_gen, gen_threads, stop_pending>>
outVars == <<compliance_text, compliance_report, unit_data, ica_rows>>
histVars == <<validated_data, computed, last_validate, loaded>>
extVars == <<sched_lines, guj_issues, df, load_result, amount_check, ppe_records>>
appVars == <<calcVars, tableVars, unitVars, lockVars, outVars, histVars>>
lateVars == <<effectiveness, form_10b, tb_check>>
vars == <<calcVars, tableVars, unitVars, lockVars, outVars, histVars, extVars, lateVars>>

NoResult == [none |-> TRUE]
NoRate == [given |-> FALSE, percent |-> 0]
GivenRate(p) == [given |-> TRUE, percent |-> p]

(***************************************************************************)
(* Helpers: Python's sum() over a list and max() of two numbers.           *)
(***************************************************************************)
RECURSIVE SumSeq(_)
SumSeq(s) == IF s = <<>> THEN 0 ELSE Head(s) + SumSeq(Tail(s))

Max(a, b) == IF a >= b THEN a ELSE b

(***************************************************************************)
(* ComplianceCalculator.calculate_section_11_compliance.                   *)
(* ratePercent is the accumulation_rate argument as a percentage.          *)
(* required_application, shortfall_excess, accumulation_allowed and        *)
(* taxable_income are in hundredths; the other amounts are in units.       *)
(***************************************************************************)
(* total_application = revenue_expenses + capital_exp *)
TotalApplicationNoCapital(revenue_expenses, capital_exp) == revenue_expenses
TotalApplication(revenue_expenses, capital_exp) == revenue_expenses + capital_exp

(* required_application = income * 0.85, in hundredths *)
RequiredApplication(income) == income * RequiredPercent

(* max_accumulation = income * accumulation_rate, in hundredths *)
MaxAccumulationRateOnly(income, ratePercent) == ratePercent
MaxAccumulation(income, ratePercent) == income * ratePercent

(* 'compliance_85_percent': total_application >= required_application *)
Compliance85Strict(total_application, required_application) ==
    100 * total_application > required_application
Compliance85(total_application, required_application) ==
    100 * total_application >= required_application

(* 'taxable_income': max(0, income - total_application - max_accumulation) *)
TaxableIncomeUnclamped(income, total_application, max_accumulation) ==
    100 * income - 100 * total_application - max_accumulation
TaxableIncome(income, total_application, max_accumulation) ==
    Max(0, 100 * income - 100 * total_application - max_accumulation)

calculate_section_11_compliance(income, expenses, capital_exp, ratePercent) ==
    LET revenue_expenses == SumSeq(expenses)
        total_application == TotalApplication(revenue_expenses, capital_exp)
        required_application == RequiredApplication(income)
        max_accumulation == MaxAccumulation(income, ratePercent)
        actual_accumulation == income - total_application
    IN  [ total_income |-> income,
          revenue_expenses |-> revenue_expenses,
          capital_expenditure |-> capital_exp,
          total_application |-> total_application,
          required_application |-> required_application,
          compliance_85_percent |-> Compliance85(total_application, required_application),
          shortfall_excess |-> 100 * total_application - required_application,
          accumulation_allowed |-> max_accumulation,
          actual_accumulation |-> actual_accumulation,
          accumulation_within_limit |-> (100 * actual_accumulation <= max_accumulation),
          taxable_income |-> TaxableIncome(income, total_application, max_accumulation) ]

(***************************************************************************)
(* npo_config.py: the chart-of-accounts group sets.                        *)
(***************************************************************************)
BS_ASSETS == {"Property, Plant & Equipment", "Intangible Assets", "Capital Work in Progress",
              "Investments - Long Term", "Investments - Current", "Inventories", "Receivables",
              "Loans & Advances", "Cash and Bank Balances", "Other Current Assets",
              "Other Non-Current Assets"}

BS_LIABILITIES == {"Corpus Fund", "General Fund", "Designated Funds", "Restricted Funds",
                   "Long Term Borrowings", "Long Term Provisions", "Other Long Term Liabilities",
                   "Current Liabilities", "Short Term Provisions", "Short Term Borrowings",
                   "Trade Payables", "Income Received in Advance"}

PL_INCOME == {"Donations and Grants", "Fees / Subscriptions", "Interest Income",
              "Dividend Income", "Other Income", "Sale of Goods", "Rent Income"}

PL_EXPENSE == {"Programme Expenses", "Staff Payments & Benefits", "Admin Expenses",
               "Rent, Rates & Taxes", "Repairs & Maintenance", "Finance Costs",
               "Depreciation", "Other Expenses", "Audit Fees", "Legal Expenses"}

FUND_TYPES == <<"General", "Designated", "Restricted", "Corpus">>

(***************************************************************************)
(* Text of an amount cell.  Entry widgets and tree cells hold text; the    *)
(* code turns it into a number with float() or pandas.to_numeric.          *)
(* Numerals lists the cell texts of the model that float() accepts, with   *)
(* their value; every other text ("" and "abc" here) raises ValueError.    *)
(***************************************************************************)
Numerals == ("0" :> 0) @@ ("0.0" :> 0) @@ ("100" :> 100) @@ ("100.0" :> 100) @@
            ("85" :> 85) @@ ("50" :> 50) @@ ("-50" :> -50) @@ (" 100 " :> 100) @@
            ("1000" :> 1000) @@ ("500" :> 500) @@ ("200" :> 200) @@ ("195" :> 195) @@ ("150" :> 150)
AmountTexts == DOMAIN Numerals \cup {"", "abc", "1,000"}

(* float(text): ok is FALSE where Python raises ValueError. *)
ParseFloat(text) ==
    IF text \in DOMAIN Numerals THEN [ok |-> TRUE, value |-> Numerals[text]]
                                ELSE [ok |-> FALSE, value |-> 0]

(* pd.to_numeric(text, errors='coerce') followed by fillna(0). *)
ToNumeric(text) == IF text \in DOMAIN Numerals THEN Numerals[text] ELSE 0

(***************************************************************************)
(* A ledger row as collect_mapping_data builds it.  The dict key           *)
(* 'Ledger Name' is the field Ledger_Name.                                 *)
(***************************************************************************)
Row(unit, name, cy, py, grp, sub, fund) ==
    [Unit |-> unit, Ledger_Name |-> name, Amount_CY |-> cy, Amount_PY |-> py,
     Group_Head |-> grp, Sub_Group |-> sub, Fund_Type |-> fund]

Consolidated == "Consolidated"

(***************************************************************************)
(* DataManager.prepare_unit_data: the list itself for "Consolidated",      *)
(* otherwise the list comprehension over the rows, in order.               *)
(***************************************************************************)
RECURSIVE UnitRows(_, _)
UnitRows(data, unit_name) ==
    IF data = <<>> THEN <<>>
    ELSE IF Head(data).Unit = unit_name
         THEN <<Head(data)>> \o UnitRows(Tail(data), unit_name)
         ELSE UnitRows(Tail(data), unit_name)

PrepareUnitDataAlwaysFilter(data, unit_name) == UnitRows(data, unit_name)
prepare_unit_data(data, unit_name) ==
    IF unit_name = Consolidated THEN data ELSE UnitRows(data, unit_name)

(***************************************************************************)
(* NPOApp.collect_mapping_data: the loop over self.map_rows.  Each entry   *)
(* of rows is [exists, w]: the frame's winfo_exists() and the widget       *)
(* values.                                                                 *)
(***************************************************************************)
RECURSIVE collect_mapping_data(_, _)
collect_mapping_data(rows, target_unit) ==
    IF rows = <<>> THEN <<>>
    ELSE LET r == Head(rows)
             rest == collect_mapping_data(Tail(rows), target_unit)
         IN  IF r.exists /\ (target_unit = Consolidated \/ r.w.Unit = target_unit)
             THEN <<r.w>> \o rest
             ELSE rest

(***************************************************************************)
(* DataManager.validate_tb_data: TRUE when every row passes.  A field is   *)
(* missing when its text is empty; the amount must be a float() text that  *)
(* is not negative; a non-empty prior-year text must be a float() text.    *)
(***************************************************************************)
RowValid(row) ==
    /\ row.Ledger_Name # ""
    /\ row.Amount_CY # ""
    /\ row.Group_Head # ""
    /\ ParseFloat(row.Amount_CY).ok
    /\ ParseFloat(row.Amount_CY).value >= 0
    /\ (row.Amount_PY # "" => ParseFloat(row.Amount_PY).ok)

validate_tb_data(data) == \A i \in 1..Len(data) : RowValid(data[i])

(***************************************************************************)
(* Sums over rows: the amount of the rows whose group is in a set.         *)
(* SumGroups adds numeric amounts (the DataFrame after to_numeric).        *)
(***************************************************************************)
RECURSIVE SumGroups(_, _)
SumGroups(data, groups) ==
    IF data = <<>> THEN 0
    ELSE (IF Head(data).Group_Head \in groups THEN Head(data).Amount_CY ELSE 0)
         + SumGroups(Tail(data), groups)

RECURSIVE SumField(_, _)
SumField(recs, fld) ==
    IF recs = <<>> THEN 0 ELSE Head(recs)[fld] + SumField(Tail(recs), fld)

(* self.tb after ExcelGenerator.generate converted the amount columns. *)
NumericRow(row) == [row EXCEPT !.Amount_CY = ToNumeric(row.Amount_CY),
                               !.Amount_PY = ToNumeric(row.Amount_PY)]
NumericRows(data) == [i \in 1..Len(data) |-> NumericRow(data[i])]

(* The default of the accumulation_rate parameter. *)
RateOf(rate) == IF rate.given THEN rate.percent ELSE DefaultAccumulationPercent

(***************************************************************************)
(* ComplianceCalculator.calculate_fund_classification over numeric rows.   *)
(***************************************************************************)
RECURSIVE FundRows(_, _)
FundRows(data, fund_type) ==
    IF data = <<>> THEN <<>>
    ELSE IF Head(data).Fund_Type = fund_type
         THEN <<Head(data)>> \o FundRows(Tail(data), fund_type)
         ELSE FundRows(Tail(data), fund_type)

calculate_fund_classification(data) ==
    [ft \in {FUND_TYPES[i] : i \in 1..Len(FUND_TYPES)} |->
        LET fund_data == FundRows(data, ft)
        IN  [count |-> Len(fund_data),
             total_cy |-> SumField(fund_data, "Amount_CY"),
             total_py |-> SumField(fund_data, "Amount_PY")]]

(***************************************************************************)
(* ComplianceCalculator.check_gujarat_compliance.  An issue is its message *)
(* and, for the missing-groups message, the groups it lists.  ppe_data is  *)
(* a sequence of asset records; the empty sequence stands for None too,    *)
(* the code treating both alike.                                           *)
(***************************************************************************)
required_groups == <<"Corpus Fund", "Restricted Funds", "Property, Plant & Equipment">>

HasGroup(data, group) == \E i \in 1..Len(data) : data[i].Group_Head = group

RECURSIVE MissingGroupsFirstOnly(_, _)
MissingGroupsFirstOnly(data, groups) ==
    IF groups = <<>> THEN <<>>
    ELSE IF HasGroup(data, Head(groups)) THEN MissingGroupsFirstOnly(data, Tail(groups))
    ELSE <<Head(groups)>>

RECURSIVE MissingGroups(_, _)
MissingGroups(data, groups) ==
    IF groups = <<>> THEN <<>>
    ELSE (IF HasGroup(data, Head(groups)) THEN <<>> ELSE <<Head(groups)>>)
         \o MissingGroups(data, Tail(groups))

(* 'Immovable' in name, 'Movable' in name, 'Investment' in group:          *)
(* case-sensitive substring tests, tabulated for the texts of the model.   *)
ContainsImmovable(name) == name \in {"Immovable Property"}
ContainsMovable(name) == name \in {"Movable Property"}
ContainsInvestment(group) == group \in {"Investments - Long Term", "Investments - Current"}

Issue(text, groups) == [text |-> text, groups |-> groups]

check_gujarat_compliance(data, ppe_data) ==
    LET missing_groups == MissingGroups(data, required_groups)
        has_immovable == \E i \in 1..Len(ppe_data) : ContainsImmovable(ppe_data[i].Asset_Name)
        has_movable == \E i \in 1..Len(ppe_data) : ContainsMovable(ppe_data[i].Asset_Name)
        investments == \E i \in 1..Len(data) : ContainsInvestment(data[i].Group_Head)
    IN  (IF missing_groups # <<>>
            THEN <<Issue("Missing required groups", missing_groups)>> ELSE <<>>)
        \o (IF Len(ppe_data) > 0 /\ ~has_immovable
            THEN <<Issue("Immovable property details not found", <<>>)>> ELSE <<>>)
        \o (IF Len(ppe_data) > 0 /\ ~has_movable
            THEN <<Issue("Movable property details not found", <<>>)>> ELSE <<>>)
        \o (IF ~investments
            THEN <<Issue("Investment details not found", <<>>)>> ELSE <<>>)

(***************************************************************************)
(* ComplianceCalculator.generate_compliance_report.  The Section 11 call   *)
(* passes the income total and the one-element list [expense_total]; its   *)
(* capital_exp and accumulation_rate take their defaults.  generated_at    *)
(* (the wall clock) is left out.                                           *)
(***************************************************************************)
DefaultCapitalExp == 0

generate_compliance_report(data, income_total, expense_total, ppe_data) ==
    [ summary |-> [ total_ledgers |-> Len(data),
                    total_income |-> income_total,
                    total_expenses |-> expense_total,
                    surplus_deficit |-> income_total - expense_total ],
      section_11 |-> calculate_section_11_compliance(
                        income_total, <<expense_total>>, DefaultCapitalExp,
                        DefaultAccumulationPercent),
      fund_classification |-> calculate_fund_classification(data),
      gujarat_compliance |-> [ issues |-> check_gujarat_compliance(data, ppe_data),
                               forms_required |-> <<"Form 10", "Form 11", "Form 12">> ],
      ica_compliance |-> [ schedules_required |-> <<"I", "II", "III", "IV", "V", "VI">>,
                           notes_required |-> TRUE ] ]

(***************************************************************************)
(* ExcelGenerator._generate_compliance_report: the totals of the numeric   *)
(* table by group set, then the report.  The code also computes ppe_total  *)
(* (the sum of the Additions column) and passes it nowhere.                *)
(***************************************************************************)
excel_generate_compliance_report(tb, ppe) ==
    LET income_total == SumGroups(tb, PL_INCOME)
        expense_total == SumGroups(tb, PL_EXPENSE)
    IN  generate_compliance_report(tb, income_total, expense_total, ppe)

(***************************************************************************)
(* Inputs of the calculator specification.                                 *)
(***************************************************************************)
Incomes == -1 .. MaxAmount
ExpenseItems == -1 .. MaxExpenseItem
ExpenseLists == UNION { [1..n -> ExpenseItems] : n \in 0..MaxExpenses }
CapitalAmounts == -1 .. MaxCapital
Rates == {NoRate, GivenRate(0), GivenRate(30)}

SweepCalls == [income : Incomes, expenses : ExpenseLists,
               capital_exp : CapitalAmounts, accumulation_rate : Rates]

(* The scenario of the specification: 100,000 / 70,000 / 10,000. *)
ScenarioCall == [income |-> 100000, expenses |-> <<70000>>,
                 capital_exp |-> 10000, accumulation_rate |-> NoRate]

Calls == SweepCalls \cup {ScenarioCall}

IdleCall == [income |-> 0, expenses |-> <<>>, capital_exp |-> 0, accumulation_rate |-> NoRate]

(* The history of compliance computations: none yet, or who made the last *)
(* one and whether its rows had passed validation.                         *)
NothingComputed == [by |-> "nobody", validated |-> TRUE]

(* The values of the variables a specification leaves alone. *)
CalcIdle == call = IdleCall /\ compliance_status = NoResult
TableIdle == map_rows = <<>> /\ ppe_tree = <<>> /\ fund_tree = <<>>
UnitIdle == /\ units_field = {"Main Unit"}
            /\ cmb_unit_values = {Consolidated, "Main Unit"}
            /\ unit_var = Consolidated
LockIdle == /\ is_validated = FALSE /\ btn_gen = "disabled"
            /\ gen_threads = 0 /\ stop_pending = 0
OutIdle == /\ compliance_text = "" /\ compliance_report = NoResult
           /\ unit_data = NoResult /\ ica_rows = <<>>
HistIdle == /\ validated_data = {} /\ computed = NothingComputed
            /\ last_validate = "none" /\ loaded = NoResult
ExtIdle == /\ sched_lines = NoResult /\ guj_issues = NoResult /\ df = NoResult
           /\ load_result = NoResult /\ amount_check = NoResult /\ ppe_records = NoResult
LateIdle == effectiveness = NoResult /\ form_10b = NoResult /\ tb_check = NoResult

(***************************************************************************)
(* SpecCalc: calculate_section_11_compliance as a pure function, called    *)
(* once on arguments drawn from Calls.                                     *)
(***************************************************************************)
CalcInit ==
    /\ call \in Calls
    /\ compliance_status = NoResult
    /\ TableIdle /\ UnitIdle /\ LockIdle /\ OutIdle /\ HistIdle /\ ExtIdle /\ LateIdle

Calculate ==
    /\ compliance_status = NoResult
    /\ compliance_status' = calculate_section_11_compliance(
            call.income, call.expenses, call.capital_exp, RateOf(call.accumulation_rate))
    /\ UNCHANGED <<lateVars, extVars, call, tableVars, unitVars, lockVars, outVars, histVars>>

CalcNext == Calculate

SpecCalc == CalcInit /\ [][CalcNext]_vars

Returned == compliance_status # NoResult
TotalApplicationIn == SumSeq(call.expenses) + call.capital_exp
RatePercentIn == IF call.accumulation_rate.given THEN call.accumulation_rate.percent ELSE 15

(***************************************************************************)
(* C1: for non-negative income and non-negative application total, the     *)
(* returned compliance_85_percent is true exactly when the application     *)
(* total is at least 85% of the income; equality counts as compliant.      *)
(***************************************************************************)
C1_Compliance85Iff ==
    (Returned /\ call.income >= 0 /\ TotalApplicationIn >= 0)
        => (compliance_status.compliance_85_percent
                <=> (100 * TotalApplicationIn >= 85 * call.income))

(* The boundary: application 17 is exactly 85% of income 20, and compliant. *)
C1_Witness ==
    /\ Returned /\ call.income = 20 /\ TotalApplicationIn = 17
    /\ compliance_status.compliance_85_percent

(***************************************************************************)
(* C2: total_application = sum(expenses) + capital_exp, required           *)
(* application = 0.85 * income, shortfall_excess = total - required; in    *)
(* the 100,000 / 70,000 / 10,000 scenario: 80,000, 85,000, not compliant,  *)
(* shortfall 5,000 (hundredths: 8,500,000 and -500,000).                   *)
(***************************************************************************)
C2_ApplicationFigures ==
    Returned =>
        /\ compliance_status.total_application = SumSeq(call.expenses) + call.capital_exp
        /\ compliance_status.required_application = 85 * call.income
        /\ compliance_status.shortfall_excess
              = 100 * compliance_status.total_application - 85 * call.income
        /\ (call = ScenarioCall =>
              /\ compliance_status.total_application = 80000
              /\ compliance_status.required_application = 8500000
              /\ compliance_status.compliance_85_percent = FALSE
              /\ compliance_status.shortfall_excess = -500000)

C2_Witness ==
    /\ Returned /\ call = ScenarioCall
    /\ compliance_status.total_application = 80000
    /\ ~compliance_status.compliance_85_percent

(***************************************************************************)
(* C3: the Section 11 result carries a deemed-application-eligible figure  *)
(* equal to max(0, required_application - total_application).              *)
(***************************************************************************)
C3_DeemedApplicationCarried ==
    Returned =>
        IF "deemed_application_eligible" \in DOMAIN compliance_status
        THEN compliance_status.deemed_application_eligible
                = Max(0, 85 * call.income - 100 * TotalApplicationIn)
        ELSE FALSE

(***************************************************************************)
(* C4: accumulation_allowed = accumulation_rate * income (15% when the     *)
(* caller gives no rate) and taxable_income = max(0, income - total        *)
(* application - accumulation_allowed), which is never negative.           *)
(***************************************************************************)
C4_AccumulationAndTaxable ==
    Returned =>
        /\ compliance_status.accumulation_allowed = RatePercentIn * call.income
        /\ compliance_status.taxable_income
              = Max(0, 100 * call.income - 100 * TotalApplicationIn
                        - RatePercentIn * call.income)
        /\ compliance_status.taxable_income >= 0

(* The clamp at work: the default rate, and more applied than the income left. *)
C4_Witness ==
    /\ Returned /\ ~call.accumulation_rate.given /\ call.income > 0
    /\ 100 * call.income - 100 * TotalApplicationIn - 15 * call.income < 0
    /\ compliance_status.accumulation_allowed = 15 * call.income
    /\ compliance_status.taxable_income = 0

(***************************************************************************)
(* C5 as claimed: with income 0 the result has required_application 0,     *)
(* accumulation_allowed 0 and compliance_85_percent true, whatever the     *)
(* application total.                                                      *)
(***************************************************************************)
C5_ZeroIncomeAnyApplication ==
    (Returned /\ call.income = 0) =>
        /\ compliance_status.required_application = 0
        /\ compliance_status.accumulation_allowed = 0
        /\ compliance_status.compliance_85_percent

(***************************************************************************)
(* C5 as amended: with income 0 and an application total that is not       *)
(* negative, required_application = 0, accumulation_allowed = 0 and        *)
(* compliance_85_percent is true; with income 0 the two thresholds are 0   *)
(* for every application total.                                            *)
(***************************************************************************)
C5_ZeroIncomeNonNegativeApplication ==
    (Returned /\ call.income = 0) =>
        /\ compliance_status.required_application = 0
        /\ compliance_status.accumulation_allowed = 0
        /\ (TotalApplicationIn >= 0 => compliance_status.compliance_85_percent)

C5_Witness ==
    /\ Returned /\ call.income = 0 /\ TotalApplicationIn > 0
    /\ call.accumulation_rate.given /\ call.accumulation_rate.percent = 30
    /\ compliance_status.accumulation_allowed = 0
    /\ compliance_status.compliance_85_percent

(***************************************************************************)
(* Sample contents of the mapping tab and of the fixed-assets tree.        *)
(* DefaultRow is what add_map_row() fills in when called without data:     *)
(* the unit is units[0] of get_unit_list(), which is "Consolidated".       *)
(* The last sample is a row as load_csv adds it from a file whose fund     *)
(* type column holds a text that is no member of FUND_TYPES.               *)
(***************************************************************************)
DefaultRow == Row(Consolidated, "", "0", "0", "", "", "General")

TypedRows ==
    { DefaultRow,
      Row("Main Unit", "Cash", "100", "0", "Cash and Bank Balances", "", "General"),
      Row("Main Unit", "Corpus", "100", "0", "Corpus Fund", "", "Corpus"),
      Row("Main Unit", "Donations", "100", "0", "Donations and Grants", "", "General"),
      Row("Main Unit", "Programme", "85", "0", "Programme Expenses", "", "General"),
      Row("Unit B", "Cash", "100", "0", "Cash and Bank Balances", "", "General"),
      Row("Main Unit", "Cash", "-50", "0", "Cash and Bank Balances", "", "General") }

LoadedRows ==
    { Row("Main Unit", "Land", "100.0", "0.0", "Property, Plant & Equipment", "", "Endowment") }

RowSamples == TypedRows \cup LoadedRows

(* The contents the user types into a row in the specification Spec. *)
EditSamples ==
    { Row("Main Unit", "Cash", "100", "0", "Cash and Bank Balances", "", "General"),
      Row("Main Unit", "Corpus", "100", "0", "Corpus Fund", "", "Corpus"),
      Row("Main Unit", "Donations", "100", "0", "Donations and Grants", "", "General"),
      Row("Main Unit", "Cash", "-50", "0", "Cash and Bank Balances", "", "General") }

Asset(name, additions) ==
    [Asset_Name |-> name, Gross_Op |-> "0", Additions |-> additions, Deletions |-> "0",
     Dep_Op |-> "0", Dep_Year |-> "0", Dep_Del |-> "0"]

(* "Add Asset" inserts ("New Asset", 0, 0, 0, 0, 0, 0); the cells are then edited. *)
NewAsset == Asset("New Asset", "0")
AssetSamples == {NewAsset, Asset("Immovable Property", "100"), Asset("Movable Property", "50")}

(* A row of self.map_rows: its frame exists, and the widget values. *)
MapRow(row) == [exists |-> TRUE, w |-> row]

SeqsUpTo(S, n) == UNION { [1..k -> S] : k \in 0..n }

(***************************************************************************)
(* NPOApp.run_compliance_check up to the report.  The widget values are    *)
(* text, so Python's sum() over them raises TypeError (0 + str) as soon as *)
(* one row is summed: in the income or expense total, or, inside           *)
(* generate_compliance_report, in the fund classification, which is        *)
(* evaluated after the Section 11 entry of the report.                     *)
(*   outcome "no_data":  the warning, and nothing else happens             *)
(*   outcome "raised":   TypeError; section_11_ran tells whether the       *)
(*                       Section 11 call had already been made             *)
(*   outcome "report":   the report is returned and shown                  *)
(***************************************************************************)
HasGroupIn(data, groups) == \E i \in 1..Len(data) : data[i].Group_Head \in groups
HasFundType(data) ==
    \E i \in 1..Len(data) : \E k \in 1..Len(FUND_TYPES) : data[i].Fund_Type = FUND_TYPES[k]

run_compliance_check(rows, tree) ==
    LET data == collect_mapping_data(rows, Consolidated)
    IN  IF data = <<>>
        THEN [outcome |-> "no_data", section_11_ran |-> FALSE, report |-> NoResult]
        ELSE IF HasGroupIn(data, PL_INCOME) \/ HasGroupIn(data, PL_EXPENSE)
        THEN [outcome |-> "raised", section_11_ran |-> FALSE, report |-> NoResult]
        ELSE IF HasFundType(data)
        THEN [outcome |-> "raised", section_11_ran |-> TRUE, report |-> NoResult]
        ELSE [outcome |-> "report", section_11_ran |-> TRUE,
              report |-> generate_compliance_report(data, 0, 0, tree)]

(***************************************************************************)
(* ExcelGenerator(org, tb, ppe, ...).generate up to the report: the amount *)
(* columns are made numeric, then _generate_compliance_report runs.  An    *)
(* empty tb is a DataFrame without columns, and self.tb['Amount_CY']       *)
(* raises KeyError before anything is computed.                            *)
(***************************************************************************)
excel_generate(tb, ppe) ==
    IF tb = <<>>
    THEN [outcome |-> "raised", section_11_ran |-> FALSE, report |-> NoResult]
    ELSE [outcome |-> "report", section_11_ran |-> TRUE,
          report |-> excel_generate_compliance_report(NumericRows(tb), ppe)]

(***************************************************************************)
(* SpecReport: the compliance report on a ledger table and an asset tree   *)
(* drawn from the samples, built once by either caller.                    *)
(***************************************************************************)
ReportInit ==
    /\ map_rows \in SeqsUpTo({MapRow(r) : r \in RowSamples}, MaxRows)
    /\ ppe_tree \in SeqsUpTo(AssetSamples, MaxAssets)
    /\ fund_tree = <<>>
    /\ units_field = {"Main Unit"}
    /\ cmb_unit_values = {Consolidated, "Main Unit"}
    /\ unit_var \in cmb_unit_values
    /\ CalcIdle /\ LockIdle /\ OutIdle /\ HistIdle /\ ExtIdle /\ LateIdle

(* run_compliance_check: the text is cleared once there is data, and the   *)
(* report is shown when it is returned.                                    *)
ReportRunComplianceCheck ==
    LET out == run_compliance_check(map_rows, ppe_tree)
    IN  /\ compliance_report = NoResult
        /\ out.outcome # "no_data"
        /\ compliance_text' = IF out.outcome = "report" THEN "report" ELSE "cleared"
        /\ compliance_report' = out.report
        /\ UNCHANGED <<lateVars, extVars, calcVars, tableVars, unitVars, lockVars, unit_data, ica_rows, histVars>>

(* generate(): tb is the rows of the filter's unit, ppe the tree's rows.   *)
ReportExcelGenerate ==
    LET out == excel_generate(collect_mapping_data(map_rows, unit_var), ppe_tree)
    IN  /\ compliance_report = NoResult
        /\ out.outcome = "report"
        /\ compliance_report' = out.report
        /\ UNCHANGED <<lateVars, extVars, calcVars, tableVars, unitVars, lockVars, compliance_text,
                       unit_data, ica_rows, histVars>>

(***************************************************************************)
(* NPOApp.refresh_10b: the figures of the 10B calculator on the rows of    *)
(* the filter's unit and the asset tree.  A row whose amount float()       *)
(* rejects is skipped, and so is an asset whose Additions cell is no       *)
(* number.  accumulation and surplus are in hundredths.                    *)
(***************************************************************************)
RECURSIVE CapitalAdditions(_)
CapitalAdditions(tree) ==
    IF tree = <<>> THEN 0
    ELSE (IF ParseFloat(Head(tree).Additions).ok
          THEN ParseFloat(Head(tree).Additions).value ELSE 0)
         + CapitalAdditions(Tail(tree))

(* The loop 'v = float(Amount_CY); if g in groups: total += v' over text   *)
(* rows: a row whose amount float() rejects is passed over.                *)
RECURSIVE SumTextGroups(_, _)
SumTextGroups(data, groups) ==
    IF data = <<>> THEN 0
    ELSE (IF Head(data).Group_Head \in groups /\ ParseFloat(Head(data).Amount_CY).ok
          THEN ParseFloat(Head(data).Amount_CY).value ELSE 0)
         + SumTextGroups(Tail(data), groups)

refresh_10b(rows, unit, tree) ==
    LET data == collect_mapping_data(rows, unit)
        inc == SumTextGroups(data, PL_INCOME)
        rev_exp == SumTextGroups(data, PL_EXPENSE \ {"Depreciation"})
        cap_exp == CapitalAdditions(tree)
        ded == inc * 15
        tot_app == rev_exp + cap_exp
    IN  [ total_income |-> inc,
          accumulation_allowed |-> ded,
          revenue_expenditure |-> rev_exp,
          capital_expenditure |-> cap_exp,
          total_application |-> tot_app,
          surplus_shortfall |-> 100 * inc - ded - 100 * tot_app,
          compliance_85 |-> (100 * tot_app >= inc * 85) ]

(* refresh_10b(), the command of "Refresh Calculation" on the 10B tab. *)
ReportRefresh10b ==
    /\ form_10b = NoResult
    /\ form_10b' = refresh_10b(map_rows, unit_var, ppe_tree)
    /\ UNCHANGED <<appVars, extVars, effectiveness, tb_check>>

ReportNext == ReportRunComplianceCheck \/ ReportExcelGenerate \/ ReportRefresh10b

SpecReport == ReportInit /\ [][ReportNext]_vars

RECURSIVE SumAdditions(_)
SumAdditions(tree) ==
    IF tree = <<>> THEN 0 ELSE ToNumeric(Head(tree).Additions) + SumAdditions(Tail(tree))

(***************************************************************************)
(* C6: in the assembled report the Section 11 total_application is the     *)
(* expense total plus the sum of the asset additions, and                  *)
(* capital_expenditure is that sum of additions.                           *)
(***************************************************************************)
C6_CapitalExpenditureInReport ==
    compliance_report # NoResult =>
        /\ compliance_report.section_11.capital_expenditure = SumAdditions(ppe_tree)
        /\ compliance_report.section_11.total_application
              = compliance_report.summary.total_expenses + SumAdditions(ppe_tree)

(***************************************************************************)
(* Spec: the application after NPOApp.__init__, driven by the user.  The    *)
(* "Defined Units" field keeps its initial text "Main Unit" unless         *)
(* load_csv rewrites it.                                                   *)
(* The history variables record, for the claims about validation, which    *)
(* row sets passed validate() since map_rows last changed (validated_data) *)
(* and whether the last Section 11 computation ran on one of them          *)
(* (computed).                                                             *)
(***************************************************************************)
(* NPOApp.get_unit_list: "Consolidated" first, then the units typed in,    *)
(* without duplicates.  first is element 0 of the list, units its members. *)
get_unit_list(field) == [first |-> Consolidated, units |-> {Consolidated} \cup field]

(* What load_tb returns for the sample files: rows with float amounts,     *)
(* which add_map_row writes into the widgets as text.                      *)
LoadedCorpus == Row("Main Unit", "Corpus", "100.0", "0.0", "Corpus Fund", "", "Corpus")
LoadedLand == Row("Main Unit", "Land", "100.0", "0.0", "Property, Plant & Equipment", "", "Endowment")
CsvData == { <<LoadedLand>>, <<LoadedLand, LoadedCorpus>> }

RECURSIVE RowUnits(_)
RowUnits(data) == IF data = <<>> THEN {} ELSE {Head(data).Unit} \cup RowUnits(Tail(data))

Init ==
    /\ map_rows = <<>> /\ ppe_tree = <<>> /\ fund_tree = <<>>
    /\ units_field = {"Main Unit"}
    /\ cmb_unit_values = {Consolidated, "Main Unit"}
    /\ unit_var = Consolidated
    /\ is_validated = FALSE
    /\ btn_gen = "disabled"
    /\ gen_threads = 0 /\ stop_pending = 0
    /\ CalcIdle /\ OutIdle
    /\ validated_data = {} /\ computed = NothingComputed /\ last_validate = "none"
    /\ loaded = NoResult
    /\ ExtIdle /\ LateIdle

(* add_map_row() from the "Add Row" button: a row of defaults is appended. *)
(* is_validated and the generate button are left as they are.              *)
AddMapRow ==
    /\ Len(map_rows) < MaxRows
    /\ map_rows' = Append(map_rows,
            MapRow(Row(get_unit_list(units_field).first, "", "0", "0", "", "", "General")))
    /\ validated_data' = {} /\ last_validate' = "none" /\ loaded' = NoResult
    /\ UNCHANGED <<lateVars, extVars, calcVars, ppe_tree, fund_tree, unitVars, lockVars, outVars, computed>>

(* The user retypes the widgets of row i; no handler runs.  The unit       *)
(* combobox is read-only and offers the units of get_unit_list().          *)
EditMapRow ==
    \E i \in 1..Len(map_rows) : \E r \in EditSamples :
        /\ r # map_rows[i].w
        /\ r.Unit \in get_unit_list(units_field).units
        /\ map_rows' = [map_rows EXCEPT ![i] = MapRow(r)]
        /\ validated_data' = {} /\ last_validate' = "none" /\ loaded' = NoResult
        /\ UNCHANGED <<lateVars, extVars, calcVars, ppe_tree, fund_tree, unitVars, lockVars, outVars, computed>>

(* remove_map_row(frame): the row is popped and its frame destroyed. *)
RemoveMapRow ==
    \E i \in 1..Len(map_rows) :
        /\ map_rows' = [k \in 1..(Len(map_rows) - 1) |->
                            IF k < i THEN map_rows[k] ELSE map_rows[k + 1]]
        /\ validated_data' = {} /\ last_validate' = "none" /\ loaded' = NoResult
        /\ UNCHANGED <<lateVars, extVars, calcVars, ppe_tree, fund_tree, unitVars, lockVars, outVars, computed>>

(* clear_mapping(): after the user confirms, the rows go, is_validated is  *)
(* reset and the button disabled; on "No" nothing changes.                 *)
ClearMapping ==
    \E yes \in BOOLEAN :
        IF yes
        THEN /\ map_rows' = <<>>
             /\ is_validated' = FALSE
             /\ btn_gen' = "disabled"
             /\ validated_data' = {} /\ last_validate' = "none" /\ loaded' = NoResult
             /\ UNCHANGED <<lateVars, extVars, calcVars, ppe_tree, fund_tree, unitVars, gen_threads,
                            stop_pending, outVars, computed>>
        ELSE UNCHANGED vars

(* load_csv() when load_tb returned rows: clear_mapping() (which asks),    *)
(* one add_map_row(item) per record, the Units field set to the units of   *)
(* the records, update_units().  When load_tb returns an error, or the     *)
(* dialog is cancelled, nothing changes.                                   *)
LoadCsv ==
    \E data \in CsvData : \E yes \in BOOLEAN :
        LET kept == IF yes THEN <<>> ELSE map_rows
            added == [i \in 1..Len(data) |-> MapRow(data[i])]
        IN  /\ Len(kept) + Len(added) <= MaxRows
            /\ map_rows' = kept \o added
            /\ is_validated' = IF yes THEN FALSE ELSE is_validated
            /\ btn_gen' = IF yes THEN "disabled" ELSE btn_gen
            /\ units_field' = RowUnits(data)
            /\ cmb_unit_values' = get_unit_list(RowUnits(data)).units
            /\ validated_data' = {} /\ last_validate' = "none"
            /\ loaded' = [records |-> data, is_validated |-> is_validated',
                          btn_gen |-> btn_gen']
            /\ UNCHANGED <<lateVars, extVars, calcVars, ppe_tree, fund_tree, unit_var, gen_threads,
                           stop_pending, outVars, computed>>

(* The user picks a unit in the "Filter Unit" combobox (filter_by_unit). *)
SelectUnit ==
    \E u \in cmb_unit_values :
        /\ u # unit_var
        /\ unit_var' = u
        /\ UNCHANGED <<lateVars, extVars, calcVars, tableVars, units_field, cmb_unit_values, lockVars,
                       outVars, histVars>>

(***************************************************************************)
(* validate(): the balance difference assets - (liab + (inc - exp)) of the *)
(* rows of the filter's unit, each row counted in the first group set that *)
(* holds its group.                                                        *)
(***************************************************************************)

BalanceDiff(data) ==
    LET assets == SumTextGroups(data, BS_ASSETS)
        liab == SumTextGroups(data, BS_LIABILITIES \ BS_ASSETS)
        inc == SumTextGroups(data, PL_INCOME \ (BS_ASSETS \cup BS_LIABILITIES))
        exp == SumTextGroups(data, PL_EXPENSE \ (BS_ASSETS \cup BS_LIABILITIES \cup PL_INCOME))
    IN  assets - (liab + (inc - exp))

Abs(x) == IF x < 0 THEN -x ELSE x

(* validate(): a structural error returns after the message box, leaving   *)
(* every field as it was; otherwise the balance decides is_validated, the  *)
(* label and the button.                                                   *)
Validate ==
    LET data == collect_mapping_data(map_rows, unit_var)
    IN  IF ~validate_tb_data(data)
        THEN /\ last_validate' = "structural"
             /\ UNCHANGED <<lateVars, extVars, calcVars, tableVars, unitVars, lockVars, outVars,
                            validated_data, computed, loaded>>
        ELSE IF Abs(BalanceDiff(data)) < 1
        THEN /\ is_validated' = TRUE
             /\ btn_gen' = "normal"
             /\ validated_data' = validated_data \cup {data}
             /\ last_validate' = "validated"
             /\ UNCHANGED <<lateVars, extVars, calcVars, tableVars, unitVars, gen_threads, stop_pending,
                            outVars, computed, loaded>>
        ELSE /\ is_validated' = FALSE
             /\ btn_gen' = "disabled"
             /\ last_validate' = "unbalanced"
             /\ UNCHANGED <<lateVars, extVars, calcVars, tableVars, unitVars, gen_threads, stop_pending,
                            outVars, validated_data, computed, loaded>>

(* start_generation(), the command of the generate button: Tk runs it only *)
(* while the button is enabled.  Not validated: the "Locked" message.      *)
(* Otherwise the button is disabled and the generate thread started.       *)
StartGeneration ==
    /\ btn_gen = "normal"
    /\ gen_threads + stop_pending < MaxThreads
    /\ IF ~is_validated
       THEN UNCHANGED vars
       ELSE /\ btn_gen' = "disabled"
            /\ gen_threads' = gen_threads + 1
            /\ UNCHANGED <<lateVars, extVars, calcVars, tableVars, unitVars, is_validated, stop_pending,
                           outVars, histVars>>

(* What a Section 11 computation on data leaves in the history. *)
ComputedOn(who, data) == [by |-> who, validated |-> data \in validated_data]

(* generate(), the thread's body: the rows of the filter's unit are        *)
(* collected now; with a path from the save dialog the workbook, and with  *)
(* it the compliance report, is built; in every case stop_progress is      *)
(* queued.                                                                 *)
Generate ==
    \E path_given \in BOOLEAN :
        LET tb == collect_mapping_data(map_rows, unit_var)
            out == excel_generate(tb, ppe_tree)
        IN  /\ gen_threads > 0
            /\ gen_threads' = gen_threads - 1
            /\ stop_pending' = stop_pending + 1
            /\ computed' = IF path_given /\ out.section_11_ran
                           THEN ComputedOn("generate", tb) ELSE computed
            /\ UNCHANGED <<lateVars, extVars, calcVars, tableVars, unitVars, is_validated, btn_gen,
                           outVars, validated_data, last_validate, loaded>>

(* stop_progress(), run by the event loop: the button is enabled again. *)
StopProgress ==
    /\ stop_pending > 0
    /\ stop_pending' = stop_pending - 1
    /\ btn_gen' = "normal"
    /\ UNCHANGED <<lateVars, extVars, calcVars, tableVars, unitVars, is_validated, gen_threads,
                   outVars, histVars>>

(* run_compliance_check(), the command of "Run Full Compliance Check". *)
RunComplianceCheck ==
    LET out == run_compliance_check(map_rows, ppe_tree)
    IN  /\ out.outcome # "no_data"
        /\ compliance_text' = IF out.outcome = "report" THEN "report" ELSE "cleared"
        /\ computed' = IF out.section_11_ran
                       THEN ComputedOn("run_compliance_check",
                                       collect_mapping_data(map_rows, Consolidated))
                       ELSE computed
        /\ UNCHANGED <<lateVars, extVars, calcVars, tableVars, unitVars, lockVars, compliance_report,
                       unit_data, ica_rows, validated_data, last_validate, loaded>>

Next ==
    \/ AddMapRow \/ EditMapRow \/ RemoveMapRow \/ ClearMapping \/ LoadCsv
    \/ SelectUnit
    \/ Validate \/ StartGeneration \/ Generate \/ StopProgress
    \/ RunComplianceCheck

Spec == Init /\ [][Next]_vars

(***************************************************************************)
(* C7: every compliance computation (run_compliance_check, or the report   *)
(* built inside generate) runs on a row set that passed validation since   *)
(* the rows last changed.                                                  *)
(***************************************************************************)
C7_ComputedOnValidatedOnly == computed.validated

(* The same for the report built inside generate alone. *)
C7_GenerateOnValidatedOnly == computed.by = "generate" => computed.validated

(***************************************************************************)
(* Additive metrics of a row list: the number of rows, and the totals of   *)
(* the numeric current-year amounts: all rows, income rows, expense rows.  *)
(***************************************************************************)
AllGroups == {""} \cup BS_ASSETS \cup BS_LIABILITIES \cup PL_INCOME \cup PL_EXPENSE
Metrics == {"rows", "amount_cy", "income", "expense"}
Metric(m, data) ==
    CASE m = "rows" -> Len(data)
      [] m = "amount_cy" -> SumField(NumericRows(data), "Amount_CY")
      [] m = "income" -> SumGroups(NumericRows(data), PL_INCOME)
      [] m = "expense" -> SumGroups(NumericRows(data), PL_EXPENSE)

RECURSIVE SumOverUnits(_, _, _)
SumOverUnits(m, rows, units) ==
    IF units = {} THEN 0
    ELSE LET u == CHOOSE x \in units : TRUE
         IN  Metric(m, collect_mapping_data(rows, u)) + SumOverUnits(m, rows, units \ {u})

(* The units of get_unit_list() other than the "Consolidated" entry. *)
RealUnits == get_unit_list(units_field).units \ {Consolidated}

(***************************************************************************)
(* C9: for every additive metric, the metric summed over the aggregator's  *)
(* results for the real units equals the metric of its result for          *)
(* "Consolidated".                                                         *)
(***************************************************************************)
C9_UnitsSumToConsolidated ==
    \A m \in Metrics :
        SumOverUnits(m, map_rows, RealUnits)
            = Metric(m, collect_mapping_data(map_rows, Consolidated))

(***************************************************************************)
(* SpecAgg: the unit aggregator as a pure function, called once on a row   *)
(* list drawn from the samples and a target unit.  "Unit C" has no rows.   *)
(***************************************************************************)
AggTargets == {Consolidated, "Main Unit", "Unit B", "Unit C"}

(* The dicts of the rows, as a caller of prepare_unit_data holds them. *)
RowDicts(rows) == [i \in 1..Len(rows) |-> rows[i].w]

AggInit ==
    /\ map_rows \in SeqsUpTo({MapRow(r) : r \in RowSamples}, MaxAggRows)
    /\ ppe_tree = <<>> /\ fund_tree = <<>>
    /\ units_field = {"Main Unit"}
    /\ cmb_unit_values = {Consolidated, "Main Unit"}
    /\ unit_var \in AggTargets
    /\ CalcIdle /\ LockIdle /\ OutIdle /\ HistIdle /\ ExtIdle /\ LateIdle

AggPrepareUnitData ==
    /\ unit_data = NoResult
    /\ unit_data' = [by |-> "prepare_unit_data",
                     rows |-> prepare_unit_data(RowDicts(map_rows), unit_var)]
    /\ UNCHANGED <<lateVars, extVars, calcVars, tableVars, unitVars, lockVars, compliance_text,
                   compliance_report, ica_rows, histVars>>

AggCollectMappingData ==
    /\ unit_data = NoResult
    /\ unit_data' = [by |-> "collect_mapping_data",
                     rows |-> collect_mapping_data(map_rows, unit_var)]
    /\ UNCHANGED <<lateVars, extVars, calcVars, tableVars, unitVars, lockVars, compliance_text,
                   compliance_report, ica_rows, histVars>>

AggNext == AggPrepareUnitData \/ AggCollectMappingData

SpecAgg == AggInit /\ [][AggNext]_vars

(* The positions of the rows of a unit, and the k-th of them. *)
Matching(data, unit) == {i \in 1..Len(data) : data[i].Unit = unit}
KthOf(S, k) == CHOOSE i \in S : Cardinality({j \in S : j < i}) = k - 1

(***************************************************************************)
(* C8: the aggregator returns all rows for "Consolidated"; for any other   *)
(* target it returns exactly the rows whose Unit equals the target, in     *)
(* their original order: none added, none left out.                        *)
(***************************************************************************)
C8_AggregatorExact ==
    unit_data # NoResult =>
        LET all == RowDicts(map_rows)
            hits == Matching(all, unit_var)
        IN  IF unit_var = Consolidated
            THEN unit_data.rows = all
            ELSE /\ Len(unit_data.rows) = Cardinality(hits)
                 /\ \A k \in 1..Len(unit_data.rows) :
                        unit_data.rows[k] = all[KthOf(hits, k)]

(* Two rows of the target around a row of another unit, kept in order. *)
C8_Witness ==
    /\ unit_data # NoResult /\ unit_data.by = "prepare_unit_data"
    /\ unit_var = "Main Unit"
    /\ Len(map_rows) = 3 /\ map_rows[2].w.Unit # "Main Unit"
    /\ Len(unit_data.rows) = 2
    /\ unit_data.rows[1] = map_rows[1].w /\ unit_data.rows[2] = map_rows[3].w
    /\ unit_data.rows[1] # unit_data.rows[2]

(***************************************************************************)
(* SpecFund: the funds tree of the schedules tab and the fund schedule     *)
(* (Schedule I) that ExcelGenerator._write_ica_schedules writes from it.   *)
(***************************************************************************)
Fund(name, type, opening, received, utilized) ==
    [Fund_Name |-> name, Type |-> type, Opening |-> opening,
     Received |-> received, Utilized |-> utilized]

(* "Add Fund" inserts ("New Fund", "Restricted", 0, 0, 0). *)
NewFund == Fund("New Fund", "Restricted", "0", "0", "0")

FundSamples ==
    { NewFund,
      Fund("Building", "Corpus", "100", "50", "85"),
      Fund("Relief", "Restricted", "0", "50", "100"),
      Fund("Misc", "General", "abc", "0", "0"),
      Fund("Chair", "Endowment", "100", "0", "0") }

(* closing = float(f['Opening']) + float(f['Received']) - float(f['Utilized']) *)
ClosingAddsUtilized(opening, received, utilized) == opening + received + utilized
Closing(opening, received, utilized) == opening + received - utilized

FloatsOk(f) == ParseFloat(f.Opening).ok /\ ParseFloat(f.Received).ok /\ ParseFloat(f.Utilized).ok

(* The row written for one fund record. *)
ScheduleRow(f) ==
    [Fund_Name |-> f.Fund_Name, Opening |-> f.Opening, Received |-> f.Received,
     Utilized |-> f.Utilized,
     Closing |-> Closing(ParseFloat(f.Opening).value, ParseFloat(f.Received).value,
                         ParseFloat(f.Utilized).value)]

(* The records of the tree in the order the two loops visit them: by       *)
(* FUND_TYPES, then by position.  A record of another type is not visited. *)
RECURSIVE FundsOfType(_, _)
FundsOfType(funds, type) ==
    IF funds = <<>> THEN <<>>
    ELSE (IF Head(funds).Type = type THEN <<Head(funds)>> ELSE <<>>)
         \o FundsOfType(Tail(funds), type)

RECURSIVE FundsInScheduleOrder(_, _)
FundsInScheduleOrder(funds, types) ==
    IF types = <<>> THEN <<>>
    ELSE FundsOfType(funds, Head(types)) \o FundsInScheduleOrder(funds, Tail(types))

(* The rows written until a float() raises ValueError, which ends the sheet. *)
RECURSIVE WrittenRows(_)
WrittenRows(funds) ==
    IF funds = <<>> THEN <<>>
    ELSE IF ~FloatsOk(Head(funds)) THEN <<>>
    ELSE <<ScheduleRow(Head(funds))>> \o WrittenRows(Tail(funds))

(* _write_ica_schedules on self.fund = DataFrame(fund): an empty list      *)
(* gives a frame without a 'Type' column, and nothing is written.          *)
write_ica_schedules(funds) ==
    IF funds = <<>> THEN <<>> ELSE WrittenRows(FundsInScheduleOrder(funds, FUND_TYPES))

FundInit ==
    /\ map_rows = <<>> /\ ppe_tree = <<>> /\ fund_tree = <<>>
    /\ CalcIdle /\ UnitIdle /\ LockIdle /\ OutIdle /\ HistIdle /\ ExtIdle /\ LateIdle

AddFund ==
    /\ Len(fund_tree) < MaxFunds
    /\ fund_tree' = Append(fund_tree, NewFund)
    /\ UNCHANGED <<lateVars, extVars, calcVars, map_rows, ppe_tree, unitVars, lockVars, outVars, histVars>>

(* The cells of record i are edited (double click, Save). *)
EditFund ==
    \E i \in 1..Len(fund_tree) : \E f \in FundSamples :
        /\ f # fund_tree[i]
        /\ fund_tree' = [fund_tree EXCEPT ![i] = f]
        /\ UNCHANGED <<lateVars, extVars, calcVars, map_rows, ppe_tree, unitVars, lockVars, outVars, histVars>>

(* "Delete Selected" with record i selected. *)
DeleteFund ==
    \E i \in 1..Len(fund_tree) :
        /\ fund_tree' = [k \in 1..(Len(fund_tree) - 1) |->
                            IF k < i THEN fund_tree[k] ELSE fund_tree[k + 1]]
        /\ UNCHANGED <<lateVars, extVars, calcVars, map_rows, ppe_tree, unitVars, lockVars, outVars, histVars>>

(* _write_ica_schedules runs on the fund records generate() builds from   *)
(* the tree: the sheet 'ICAI NPO Schedules' is written from them.          *)
WriteIcaSchedules ==
    /\ ica_rows' = write_ica_schedules(fund_tree)
    /\ UNCHANGED <<lateVars, extVars, calcVars, tableVars, unitVars, lockVars, compliance_text,
                   compliance_report, unit_data, histVars>>

FundNext == AddFund \/ EditFund \/ DeleteFund \/ WriteIcaSchedules

SpecFund == FundInit /\ [][FundNext]_vars

(***************************************************************************)
(* C10: every row written to the fund schedule has closing = opening +     *)
(* received - utilized, computed from the three inputs of the record at    *)
(* the time of writing (a fund record stores no closing value), also when  *)
(* the closing balance is negative.                                        *)
(***************************************************************************)
C10_ClosingRecomputed ==
    \A k \in 1..Len(ica_rows) :
        LET w == ica_rows[k]
        IN  /\ w.Closing = Numerals[w.Opening] + Numerals[w.Received] - Numerals[w.Utilized]
            /\ \A i \in 1..Len(fund_tree) : "Closing" \notin DOMAIN fund_tree[i]

(* A schedule written after an edit, with a negative closing balance. *)
C10_Witness ==
    \E k \in 1..Len(ica_rows) :
        /\ ica_rows[k].Closing < 0
        /\ Numerals[ica_rows[k].Utilized]
              > Numerals[ica_rows[k].Opening] + Numerals[ica_rows[k].Received]

(***************************************************************************)
(* npo_config.py: the Gujarat schedule mapping tables.  A dict keeps its   *)
(* insertion order, so each table is the sequence of its items: the        *)
(* jurisdiction line and the list of canonical groups it draws from.       *)
(***************************************************************************)
Line(line, groups) == [line |-> line, groups |-> groups]

GUJ_BS_ASSETS_MAP ==
    << Line("Immovable Properties", {"Property, Plant & Equipment"}),
       Line("Investments", {"Investments - Long Term", "Investments - Current"}),
       Line("Furniture & Fixtures", {"Property, Plant & Equipment"}),
       Line("Loans (Scholarships/Other)", {"Loans & Advances"}),
       Line("Advances", {"Loans & Advances"}),
       Line("Cash and Bank Balances", {"Cash and Bank Balances"}) >>

GUJ_BS_LIAB_MAP ==
    << Line("Trust Funds or Corpus", {"Corpus Fund"}),
       Line("Other Earmarked Funds", {"Restricted Funds", "Designated Funds"}),
       Line("Loans (Secured/Unsecured)", {"Long Term Borrowings", "Short Term Borrowings"}),
       Line("Liabilities", {"Current Liabilities", "Trade Payables", "Provisions"}) >>

GUJ_IE_EXP_MAP ==
    << Line("To Rent, Rates, Taxes", {"Rent, Rates & Taxes"}),
       Line("To Repairs & Maintenance", {"Repairs & Maintenance"}),
       Line("To Salaries", {"Staff Payments & Benefits"}),
       Line("To Audit Fees", {"Audit Fees"}),
       Line("To Establishment Expenses", {"Admin Expenses", "Other Expenses"}),
       Line("To Depreciation", {"Depreciation"}),
       Line("To Expenditure on Objects of Trust", {"Programme Expenses"}) >>

GUJ_IE_INC_MAP ==
    << Line("By Rent (Accrued/Realised)", {"Rent Income"}),
       Line("By Interest (Accrued/Realised)", {"Interest Income"}),
       Line("By Dividend", {"Dividend Income"}),
       Line("By Donations in Cash or Kind", {"Donations and Grants"}),
       Line("By Grants", {"Donations and Grants"}),
       Line("By Income from other sources",
            {"Other Income", "Fees / Subscriptions", "Sale of Goods"}) >>

MappingTables == {GUJ_BS_ASSETS_MAP, GUJ_BS_LIAB_MAP, GUJ_IE_EXP_MAP, GUJ_IE_INC_MAP}

(* The lines of a table whose source set holds a group. *)
LinesOf(table, group) == {k \in 1..Len(table) : group \in table[k].groups}

(* Every group named by a table. *)
GroupsOf(table) == UNION {table[k].groups : k \in 1..Len(table)}

(***************************************************************************)
(* The value of a jurisdiction line:                                       *)
(*   self.tb[self.tb['Group_Head'].isin(groups)]['Amount_CY'].sum()        *)
(* over the numeric rows.                                                  *)
(***************************************************************************)
RECURSIVE LineValueFirstRowOnly(_, _)
LineValueFirstRowOnly(tb, groups) ==
    IF tb = <<>> THEN 0
    ELSE IF Head(tb).Group_Head \in groups THEN Head(tb).Amount_CY
    ELSE LineValueFirstRowOnly(Tail(tb), groups)
LineValue(tb, groups) == SumGroups(tb, groups)

(* The lines a loop over a table writes: the line's name and its value. *)
WriteLines(tb, table) ==
    [k \in 1..Len(table) |-> [line |-> table[k].line,
                               value |-> LineValue(tb, table[k].groups)]]

(***************************************************************************)
(* A fixed-asset record as generate() builds it from the cells of          *)
(* ppe_tree: every cell is text.                                           *)
(***************************************************************************)
AssetRecord(name, gross_op, additions, deletions, dep_op, dep_year) ==
    [Asset_Name |-> name, Gross_Op |-> gross_op, Additions |-> additions,
     Deletions |-> deletions, Dep_Op |-> dep_op, Dep_Year |-> dep_year, Dep_Del |-> "0"]

(* pd.to_numeric(r, errors='ignore') on a record converts the record only  *)
(* when every cell of it, the asset's name included, parses as a number;   *)
(* otherwise the record comes back as it was, its cells still text.        *)
AllNumeric(r) == \A f \in DOMAIN r : r[f] \in DOMAIN Numerals

(* (r['Gross_Op']+r['Additions']-r['Deletions']) - (r['Dep_Op']+r['Dep_Year']) *)
NetBookValue(r) ==
    (Numerals[r.Gross_Op] + Numerals[r.Additions] - Numerals[r.Deletions])
        - (Numerals[r.Dep_Op] + Numerals[r.Dep_Year])

RECURSIVE SumNetBookValue(_)
SumNetBookValue(ppe) ==
    IF ppe = <<>> THEN 0 ELSE NetBookValue(Head(ppe)) + SumNetBookValue(Tail(ppe))

PPE == "Property, Plant & Equipment"

(* On text cells '+' concatenates and '-' raises TypeError, which ends the *)
(* sheet before the line is written.                                       *)
AssetLineRaises(ppe, groups) ==
    PPE \in groups /\ \E i \in 1..Len(ppe) : ~AllNumeric(ppe[i])

AssetLineValueEveryLine(tb, ppe, groups) == LineValue(tb, groups) + SumNetBookValue(ppe)
AssetLineValue(tb, ppe, groups) ==
    LineValue(tb, groups) + (IF PPE \in groups THEN SumNetBookValue(ppe) ELSE 0)

(* The asset lines written, in table order, up to the first that raises. *)
RECURSIVE WriteAssetLines(_, _, _)
WriteAssetLines(tb, ppe, table) ==
    IF table = <<>> THEN <<>>
    ELSE IF AssetLineRaises(ppe, Head(table).groups) THEN <<>>
    ELSE <<[line |-> Head(table).line,
            value |-> AssetLineValue(tb, ppe, Head(table).groups)]>>
         \o WriteAssetLines(tb, ppe, Tail(table))

(* ExcelGenerator._write_gujarat_sch8: liabilities, then assets. *)
write_gujarat_sch8(tb, ppe) ==
    [sheet |-> "Sch VIII", first |-> WriteLines(tb, GUJ_BS_LIAB_MAP),
     second |-> WriteAssetLines(tb, ppe, GUJ_BS_ASSETS_MAP),
     raised |-> \E k \in 1..Len(GUJ_BS_ASSETS_MAP) :
                    AssetLineRaises(ppe, GUJ_BS_ASSETS_MAP[k].groups)]

(* ExcelGenerator._write_gujarat_sch9: expenditure, then income. *)
write_gujarat_sch9(tb) ==
    [sheet |-> "Sch IX", first |-> WriteLines(tb, GUJ_IE_EXP_MAP),
     second |-> WriteLines(tb, GUJ_IE_INC_MAP), raised |-> FALSE]

(***************************************************************************)
(* SpecSched: the two schedules written once from a ledger table and an    *)
(* asset tree drawn from the samples.  generate() hands ExcelGenerator    *)
(* only a ledger table that has rows.                                      *)
(***************************************************************************)
SchedRowSamples ==
    { Row("Main Unit", "Cash", "100", "0", "Cash and Bank Balances", "", "General"),
      Row("Main Unit", "Shares", "50", "0", "Investments - Current", "", "General"),
      Row("Main Unit", "Land", "100", "0", "Property, Plant & Equipment", "", "General"),
      Row("Main Unit", "Staff Loan", "85", "0", "Loans & Advances", "", "General"),
      Row("Main Unit", "Corpus", "100", "0", "Corpus Fund", "", "Corpus"),
      Row("Main Unit", "Reserve", "50", "0", "General Fund", "", "General"),
      Row("Main Unit", "Donations", "100", "0", "Donations and Grants", "", "General"),
      Row("Main Unit", "Rent", "50", "0", "Rent Income", "", "General"),
      Row("Main Unit", "Programme", "85", "0", "Programme Expenses", "", "General"),
      Row("Main Unit", "Sundry", "50", "0", "Other Expenses", "", "General") }

SchedAssetSamples ==
    { AssetRecord("New Asset", "0", "0", "0", "0", "0"),
      AssetRecord("Building", "100", "85", "50", "0", "50"),
      AssetRecord("100", "100", "85", "50", "0", "50") }

SchedInit ==
    /\ map_rows \in SeqsUpTo({MapRow(r) : r \in SchedRowSamples}, MaxRows) \ {<<>>}
    /\ ppe_tree \in SeqsUpTo(SchedAssetSamples, MaxAssets)
    /\ fund_tree = <<>>
    /\ UnitIdle /\ CalcIdle /\ LockIdle /\ OutIdle /\ HistIdle /\ ExtIdle /\ LateIdle

(* The variables every action below leaves alone. *)

(* self.tb in the sheet writers: the collected rows, amounts numeric. *)
SchedTb == NumericRows(collect_mapping_data(map_rows, unit_var))

SchedWriteGujaratSch8 ==
    /\ sched_lines = NoResult
    /\ sched_lines' = write_gujarat_sch8(SchedTb, ppe_tree)
    /\ UNCHANGED <<lateVars, appVars, guj_issues, df, load_result, amount_check, ppe_records>>

SchedWriteGujaratSch9 ==
    /\ sched_lines = NoResult
    /\ sched_lines' = write_gujarat_sch9(SchedTb)
    /\ UNCHANGED <<lateVars, appVars, guj_issues, df, load_result, amount_check, ppe_records>>

SchedNext == SchedWriteGujaratSch8 \/ SchedWriteGujaratSch9

SpecSched == SchedInit /\ [][SchedNext]_vars

(* The mapping tables a schedule is written through. *)
TablesOf(sheet) == IF sheet = "Sch VIII" THEN {GUJ_BS_LIAB_MAP, GUJ_BS_ASSETS_MAP}
                                          ELSE {GUJ_IE_EXP_MAP, GUJ_IE_INC_MAP}

(***************************************************************************)
(* C11: in each mapping table a schedule is written through (the four      *)
(* tables, over the two schedules) every canonical group is in the source  *)
(* set of at most one jurisdiction line.                                   *)
(***************************************************************************)
C11_GroupInAtMostOneLine ==
    sched_lines # NoResult =>
        \A table \in TablesOf(sched_lines.sheet) : \A g \in GroupsOf(table) :
            Cardinality(LinesOf(table, g)) <= 1

(* The table behind the first or the second block of a written schedule. *)
TableOfBlock(sheet, block) ==
    IF sheet = "Sch VIII"
    THEN (IF block = "first" THEN GUJ_BS_LIAB_MAP ELSE GUJ_BS_ASSETS_MAP)
    ELSE (IF block = "first" THEN GUJ_IE_EXP_MAP ELSE GUJ_IE_INC_MAP)

(* Every group used by the rows is in exactly one line of the table. *)
MappedExactlyOnce(tb, table) ==
    \A i \in 1..Len(tb) : Cardinality(LinesOf(table, tb[i].Group_Head)) = 1

RECURSIVE NetBookValueOfRecords(_)
NetBookValueOfRecords(ppe) ==
    IF ppe = <<>> THEN 0
    ELSE (ToNumeric(Head(ppe).Gross_Op) + ToNumeric(Head(ppe).Additions)
              - ToNumeric(Head(ppe).Deletions))
         - (ToNumeric(Head(ppe).Dep_Op) + ToNumeric(Head(ppe).Dep_Year))
         + NetBookValueOfRecords(Tail(ppe))

(* Every line of every block is written with the value the rule gives it. *)
LinesAsRuled ==
    \A block \in {"first", "second"} :
        LET table == TableOfBlock(sched_lines.sheet, block)
            lines == sched_lines[block]
        IN  /\ Len(lines) = Len(table)
            /\ \A k \in 1..Len(table) :
                  /\ lines[k].line = table[k].line
                  /\ lines[k].value
                        = SumGroups(SchedTb, table[k].groups)
                          + (IF table = GUJ_BS_ASSETS_MAP /\ PPE \in table[k].groups
                             THEN NetBookValueOfRecords(ppe_tree) ELSE 0)

(***************************************************************************)
(* C13: each jurisdiction line's value is the sum of Amount_CY of the rows *)
(* whose group is in its source set; an asset line whose source set holds  *)
(* 'Property, Plant & Equipment' adds, for every asset record,             *)
(* (Gross_Op + Additions - Deletions) - (Dep_Op + Dep_Year); no other line *)
(* includes net book value.                                                *)
(***************************************************************************)
C13_LineValues == sched_lines # NoResult => LinesAsRuled

(* The same, for asset records whose every cell, the name included, is a   *)
(* numeral.                                                                *)
C13_LineValuesNumericRecords ==
    (sched_lines # NoResult /\ \A i \in 1..Len(ppe_tree) : AllNumeric(ppe_tree[i]))
        => LinesAsRuled

(***************************************************************************)
(* SpecGuj: check_gujarat_compliance as a pure function, called once on a  *)
(* row list and an asset list drawn from the samples.                      *)
(***************************************************************************)
GujRowSamples ==
    { Row("Main Unit", "Corpus", "100", "0", "Corpus Fund", "", "Corpus"),
      Row("Main Unit", "Grant", "50", "0", "Restricted Funds", "", "Restricted"),
      Row("Main Unit", "Land", "100", "0", "Property, Plant & Equipment", "", "General"),
      Row("Main Unit", "Shares", "50", "0", "Investments - Current", "", "General"),
      Row("Main Unit", "Cash", "100", "0", "Cash and Bank Balances", "", "General") }

GujInit ==
    /\ map_rows \in SeqsUpTo({MapRow(r) : r \in GujRowSamples}, MaxGujRows)
    /\ ppe_tree \in SeqsUpTo(AssetSamples, MaxAssets)
    /\ fund_tree = <<>>
    /\ UnitIdle /\ CalcIdle /\ LockIdle /\ OutIdle /\ HistIdle /\ ExtIdle /\ LateIdle

(* The call made by generate_compliance_report. *)
GujCheckWithAssets ==
    /\ guj_issues = NoResult
    /\ guj_issues' = [issues |-> check_gujarat_compliance(RowDicts(map_rows), ppe_tree)]
    /\ UNCHANGED <<lateVars, appVars, sched_lines, df, load_result, amount_check, ppe_records>>

(* The call with ppe_data left at its default None. *)
GujCheckWithoutAssets ==
    /\ guj_issues = NoResult
    /\ guj_issues' = [issues |-> check_gujarat_compliance(RowDicts(map_rows), <<>>)]
    /\ UNCHANGED <<lateVars, appVars, sched_lines, df, load_result, amount_check, ppe_records>>

GujNext == GujCheckWithAssets \/ GujCheckWithoutAssets

SpecGuj == GujInit /\ [][GujNext]_vars

(* The required groups no row carries, and the missing-group issues. *)
GroupsWithoutRow ==
    {g \in {required_groups[k] : k \in 1..Len(required_groups)} :
        \A i \in 1..Len(map_rows) : map_rows[i].w.Group_Head # g}
MissingGroupIssues ==
    {k \in 1..Len(guj_issues.issues) : guj_issues.issues[k].text = "Missing required groups"}

(***************************************************************************)
(* C14 as stated: one issue string for each required group that has no     *)
(* row, and no missing-group issue when every required group has a row.    *)
(***************************************************************************)
C14_OneIssuePerMissingGroup ==
    guj_issues # NoResult =>
        Cardinality(MissingGroupIssues) = Cardinality(GroupsWithoutRow)

(***************************************************************************)
(* C14 amended: when at least one required group has no row, exactly one   *)
(* issue string is emitted that names every such group (and no other);     *)
(* when every required group has a row, no missing-group issue is emitted. *)
(***************************************************************************)
C14_OneIssueNamingMissingGroups ==
    guj_issues # NoResult =>
        IF GroupsWithoutRow = {}
        THEN MissingGroupIssues = {}
        ELSE /\ Cardinality(MissingGroupIssues) = 1
             /\ \A k \in MissingGroupIssues :
                   LET named == guj_issues.issues[k].groups
                   IN  /\ {named[j] : j \in 1..Len(named)} = GroupsWithoutRow
                       /\ Len(named) = Cardinality(GroupsWithoutRow)

(* Two required groups are missing and one issue names both. *)
C14_Witness ==
    /\ guj_issues # NoResult
    /\ Cardinality(GroupsWithoutRow) = 2
    /\ \E k \in 1..Len(guj_issues.issues) :
          /\ guj_issues.issues[k].text = "Missing required groups"
          /\ Len(guj_issues.issues[k].groups) = 2

(***************************************************************************)
(* The DataFrame pd.read_csv returns: its column labels in header order    *)
(* and its rows, each row the cells under those labels.  A cell is the     *)
(* text of the file; the empty text is a blank cell, which pandas holds as *)
(* NaN.                                                                    *)
(***************************************************************************)
DataFrame(columns, rows) == [columns |-> columns, rows |-> rows]

ColumnSet(d) == {d.columns[k] : k \in 1..Len(d.columns)}
ColumnIndex(d, col) == CHOOSE k \in 1..Len(d.columns) : d.columns[k] = col
Cell(d, i, col) == d.rows[i][ColumnIndex(d, col)]

(* The absent column: None. *)
NoColumn == "None"

(* pd.to_numeric(cell, errors='coerce').notna(): the cell parses as a      *)
(* number.  A blank cell (NaN) and a text with a comma do not.             *)
NotNa(cell) == ParseFloat(cell).ok

(* df[col].duplicated(): the rows whose cell equals that of an earlier row. *)
Duplicated(d, col) ==
    {i \in 1..Len(d.rows) : \E j \in 1..(i - 1) : Cell(d, j, col) = Cell(d, i, col)}

(* The rows whose cell of the column is no number. *)
InvalidRows(d, col) == {i \in 1..Len(d.rows) : ~NotNa(Cell(d, i, col))}

(* errors[:3] *)
FirstThree(errors) == SubSeq(errors, 1, IF Len(errors) < 3 THEN Len(errors) ELSE 3)

(***************************************************************************)
(* DataManager._validate_dataframe(df, name_col, cy_col, py_col).  The     *)
(* result is the verdict and the error categories of the message, or       *)
(* raised = "KeyError" where df[name_col], df[cy_col] or df[py_col] is     *)
(* evaluated for a label the frame does not have.                          *)
(***************************************************************************)
Verdict(ok, errors) == [raised |-> "", ok |-> ok, errors |-> errors]
Raised(exception) == [raised |-> exception, ok |-> FALSE, errors |-> <<>>]

validate_dataframe(d, name_col, cy_col, py_col) ==
    IF d.rows = <<>> \/ d.columns = <<>> THEN Verdict(FALSE, <<"File is empty">>)
    ELSE IF name_col \notin ColumnSet(d) \/ cy_col \notin ColumnSet(d)
            \/ (py_col # NoColumn /\ py_col \notin ColumnSet(d))
    THEN Raised("KeyError")
    ELSE LET errors ==
                 (IF Duplicated(d, name_col) # {}
                  THEN <<"Duplicate ledger names">> ELSE <<>>)
                 \o (IF InvalidRows(d, cy_col) # {}
                     THEN <<"Invalid current year amounts">> ELSE <<>>)
                 \o (IF py_col # NoColumn /\ InvalidRows(d, py_col) # {}
                     THEN <<"Invalid previous year amounts">> ELSE <<>>)
         IN  IF errors # <<>> THEN Verdict(FALSE, FirstThree(errors))
                              ELSE Verdict(TRUE, <<>>)

(***************************************************************************)
(* InputValidator.validate_amount.  Cleaned is                             *)
(* str(amount_str).replace(',', '').strip(), tabulated for the texts of    *)
(* the model.                                                              *)
(***************************************************************************)
Cleaned(text) ==
    CASE text = "1,000" -> "1000"
      [] text = " 100 " -> "100"
      [] OTHER -> text

validate_amount(amount_str) ==
    LET cleaned == Cleaned(amount_str)
    IN  IF cleaned = "" THEN [ok |-> TRUE, value |-> 0]
        ELSE IF ~ParseFloat(cleaned).ok THEN [ok |-> FALSE, value |-> 0]
        ELSE IF ParseFloat(cleaned).value < 0 THEN [ok |-> FALSE, value |-> 0]
        ELSE [ok |-> TRUE, value |-> ParseFloat(cleaned).value]

(***************************************************************************)
(* SpecValidate: the validators as pure functions.  The frame is drawn     *)
(* from files with the columns Unit, Ledger, Amount CY, Amount PY and up   *)
(* to MaxCsvRows rows of the samples; _validate_dataframe is called once   *)
(* on it, with labels the frame has or lacks; the three amount validators  *)
(* are asked once about one amount text.                                   *)
(***************************************************************************)
CsvColumns == <<"Unit", "Ledger", "Amount CY", "Amount PY">>

CsvRowSamples ==
    { <<"A", "Cash", "100", "0">>,
      <<"B", "Cash", "100", "0">>,
      <<"A", "Bank", "100", "0">>,
      <<"A", "Cash", "-50", "0">>,
      <<"A", "Bank", "", "0">>,
      <<"A", "Bank", "abc", "0">>,
      <<"A", "Bank", "1,000", "0">>,
      <<"A", "Bank", "100", "abc">>,
      <<"A", "Cash", "0", "0">> }

(* The amount texts a cell of a file or of the mapping tab may hold. *)
CsvAmountTexts == {"100", "0", "-50", "", "abc", "1,000"}

NameColumns == {"Ledger", "Particulars"}
CyColumns == {"Amount CY", "Balance"}
PyColumns == {NoColumn, "Amount PY"}

ValidateInit ==
    /\ df \in {DataFrame(CsvColumns, rows) : rows \in SeqsUpTo(CsvRowSamples, MaxCsvRows)}
    /\ sched_lines = NoResult /\ guj_issues = NoResult /\ load_result = NoResult
    /\ amount_check = NoResult /\ ppe_records = NoResult /\ LateIdle
    /\ TableIdle /\ UnitIdle /\ CalcIdle /\ LockIdle /\ OutIdle /\ HistIdle

ValidateDataframe ==
    \E name_col \in NameColumns : \E cy_col \in CyColumns : \E py_col \in PyColumns :
        /\ load_result = NoResult
        /\ load_result' = [by |-> "_validate_dataframe", name_col |-> name_col,
                           cy_col |-> cy_col, py_col |-> py_col,
                           result |-> validate_dataframe(df, name_col, cy_col, py_col)]
        /\ UNCHANGED <<lateVars, appVars, sched_lines, guj_issues, df, amount_check, ppe_records>>

(* One amount text put to the three validators: as the only current-year   *)
(* cell of a file, as the Amount_CY of the only row of the mapping tab,    *)
(* and as the argument of validate_amount.                                 *)
ValidateAmountText ==
    \E text \in CsvAmountTexts :
        /\ amount_check = NoResult
        /\ amount_check' =
              [text |-> text,
               dataframe |-> validate_dataframe(
                                 DataFrame(CsvColumns, <<<<"A", "Cash", text, "0">>>>),
                                 "Ledger", "Amount CY", "Amount PY").ok,
               tb_data |-> validate_tb_data(
                               <<Row("A", "Cash", text, "0", "Cash and Bank Balances",
                                     "", "General")>>),
               amount |-> validate_amount(text).ok]
        /\ UNCHANGED <<lateVars, appVars, sched_lines, guj_issues, df, load_result, ppe_records>>

ValidateNext == ValidateDataframe \/ ValidateAmountText

SpecValidate == ValidateInit /\ [][ValidateNext]_vars

(***************************************************************************)
(* The error categories present in the frame, in check order: a missing    *)
(* column, duplicate ledger names, invalid current-year amounts, invalid   *)
(* prior-year amounts.                                                     *)
(***************************************************************************)
HasColumn(col) == \E k \in 1..Len(df.columns) : df.columns[k] = col
CellsOf(col) == [i \in 1..Len(df.rows) |-> df.rows[i][ColumnIndex(df, col)]]

CategoriesPresent(name_col, cy_col, py_col) ==
    (IF ~HasColumn(name_col) \/ ~HasColumn(cy_col)
     THEN <<"Column not found">> ELSE <<>>)
    \o (IF HasColumn(name_col)
           /\ \E i, j \in 1..Len(df.rows) :
                  i # j /\ CellsOf(name_col)[i] = CellsOf(name_col)[j]
        THEN <<"Duplicate ledger names">> ELSE <<>>)
    \o (IF HasColumn(cy_col)
           /\ \E i \in 1..Len(df.rows) : CellsOf(cy_col)[i] \notin DOMAIN Numerals
        THEN <<"Invalid current year amounts">> ELSE <<>>)
    \o (IF HasColumn(py_col)
           /\ \E i \in 1..Len(df.rows) : CellsOf(py_col)[i] \notin DOMAIN Numerals
        THEN <<"Invalid previous year amounts">> ELSE <<>>)

Batched(present) ==
    /\ load_result.result.raised = ""
    /\ load_result.result.ok = (present = <<>>)
    /\ load_result.result.errors
          = SubSeq(present, 1, IF Len(present) < 3 THEN Len(present) ELSE 3)

(***************************************************************************)
(* C15: validation of a non-empty dataset fails with one error carrying    *)
(* the first min(k, 3) of the k >= 1 error categories present, in check    *)
(* order, and succeeds exactly when k = 0.                                 *)
(***************************************************************************)
C15_ErrorsBatched ==
    (load_result # NoResult /\ df.rows # <<>>) =>
        Batched(CategoriesPresent(load_result.name_col, load_result.cy_col,
                                  load_result.py_col))

(* The same, for calls that name columns the frame has. *)
C15_ErrorsBatchedColumnsPresent ==
    (/\ load_result # NoResult /\ df.rows # <<>>
     /\ HasColumn(load_result.name_col) /\ HasColumn(load_result.cy_col))
        => Batched(CategoriesPresent(load_result.name_col, load_result.cy_col,
                                     load_result.py_col))

(* Two rows of the same unit share a ledger name. *)
SameUnitDuplicate ==
    \E i, j \in 1..Len(df.rows) :
        /\ i # j
        /\ CellsOf("Unit")[i] = CellsOf("Unit")[j]
        /\ CellsOf("Ledger")[i] = CellsOf("Ledger")[j]

(***************************************************************************)
(* C16: the duplicate check rejects a dataset if and only if two rows of   *)
(* the same unit share a ledger name; one name occurring once in each of   *)
(* two units is no duplicate.                                              *)
(***************************************************************************)
C16_DuplicateWithinUnitOnly ==
    (/\ load_result # NoResult /\ load_result.result.raised = ""
     /\ df.rows # <<>> /\ load_result.name_col = "Ledger")
        => ((\E k \in 1..Len(load_result.result.errors) :
                 load_result.result.errors[k] = "Duplicate ledger names")
            <=> SameUnitDuplicate)

(* What the rule accepts: blank after stripping commas and whitespace, or  *)
(* a number that is not negative.                                          *)
AcceptedByRule(text) ==
    \/ Cleaned(text) = ""
    \/ (Cleaned(text) \in DOMAIN Numerals /\ Numerals[Cleaned(text)] >= 0)

(***************************************************************************)
(* C17: file validation (_validate_dataframe), row validation              *)
(* (validate_tb_data) and InputValidator.validate_amount each accept a     *)
(* current-year amount exactly when, commas and whitespace stripped, it is *)
(* blank or a number >= 0, and reject negative and non-numeric amounts.    *)
(***************************************************************************)
C17_AmountAcceptedAlike ==
    amount_check # NoResult =>
        /\ amount_check.dataframe = AcceptedByRule(amount_check.text)
        /\ amount_check.tb_data = AcceptedByRule(amount_check.text)
        /\ amount_check.amount = AcceptedByRule(amount_check.text)

(* The same, for validate_amount alone. *)
C17_ValidateAmountOnly ==
    amount_check # NoResult => amount_check.amount = AcceptedByRule(amount_check.text)

(***************************************************************************)
(* DataManager.load_tb: column resolution.  The tests are substring tests  *)
(* on the lower-cased, stripped label, tabulated for the labels of the     *)
(* model.  'rs' is a substring of 'particulars', which makes that label an *)
(* amount candidate as well as a ledger-name column.                       *)
(***************************************************************************)
HeaderSamples == {"Ledger Name", "Particulars", "Amount", "Debit", "Closing Balance",
                  "Amount CY", "Prev Amount", "Unit"}

(* any(x in c for x in ['ledger', 'particular', 'head']) *)
IsNameLike(c) == c \in {"Ledger Name", "Particulars"}
(* any(x in c for x in ['amount', 'debit', 'balance', 'rs']) *)
IsAmountLike(c) == c \in {"Particulars", "Amount", "Debit", "Closing Balance",
                          "Amount CY", "Prev Amount"}
(* 'prev' in c or 'py' in c *)
HasPyTag(c) == c \in {"Prev Amount"}
(* 'curr' in c or 'cy' in c *)
HasCyTag(c) == c \in {"Amount CY"}
(* 'unit' in c or 'branch' in c *)
IsUnitLike(c) == c \in {"Unit"}
(* 'group' in c and 'sub' not in c *)
IsGroupLike(c) == c \in {"Group"}

(* next((cols[c] for c in cols if test(c)), None) *)
FirstOf(columns, hits) ==
    IF hits = {} THEN NoColumn
    ELSE columns[CHOOSE k \in hits : \A j \in hits : k <= j]
FirstNameLikeAnyColumn(columns) == columns[1]
FirstNameLike(columns) ==
    FirstOf(columns, {k \in 1..Len(columns) : IsNameLike(columns[k])})
FirstUnitLike(columns) ==
    FirstOf(columns, {k \in 1..Len(columns) : IsUnitLike(columns[k])})

(* [c for c in cols if amount-like], in header order *)
RECURSIVE AmtCandidates(_)
AmtCandidates(columns) ==
    IF columns = <<>> THEN <<>>
    ELSE (IF IsAmountLike(Head(columns)) THEN <<Head(columns)>> ELSE <<>>)
         \o AmtCandidates(Tail(columns))

(* The loop over the candidates: a prior-year tag sets py_col, otherwise a *)
(* current-year tag sets cy_col; a later candidate overwrites an earlier.  *)
RECURSIVE TaggedColumns(_, _)
TaggedColumns(candidates, found) ==
    IF candidates = <<>> THEN found
    ELSE LET c == Head(candidates)
         IN  TaggedColumns(Tail(candidates),
                 IF HasPyTag(c) THEN [found EXCEPT !.py_col = c]
                 ELSE IF HasCyTag(c) THEN [found EXCEPT !.cy_col = c]
                 ELSE found)

CyFallbackLastCandidate(candidates) == candidates[Len(candidates)]
CyFallback(candidates) == candidates[1]

ResolveColumns(columns) ==
    LET amt_candidates == AmtCandidates(columns)
        tagged == TaggedColumns(amt_candidates, [cy_col |-> NoColumn, py_col |-> NoColumn])
    IN  [name_col |-> FirstNameLike(columns),
         cy_col |-> IF tagged.cy_col = NoColumn /\ Len(amt_candidates) > 0
                    THEN CyFallback(amt_candidates) ELSE tagged.cy_col,
         py_col |-> IF tagged.py_col = NoColumn /\ Len(amt_candidates) > 1
                    THEN amt_candidates[2] ELSE tagged.py_col,
         unit_col |-> FirstUnitLike(columns)]

(* DataManager._safe_float: NaN gives 0.0; a text is stripped of commas    *)
(* and whitespace and converted; any failure gives 0.0.                    *)
safe_float(value) ==
    IF value = "" THEN 0
    ELSE IF ParseFloat(Cleaned(value)).ok THEN ParseFloat(Cleaned(value)).value ELSE 0

ColumnError == "Could not identify Ledger/Amount columns."

(* str(cell).strip(): a blank cell is NaN, whose text is 'nan'. *)
StrCell(cell) == IF cell = "" THEN "nan" ELSE cell

(* The auto-map loop for Group_Head: every group-like column overwrites    *)
(* the value, so the last one in header order stands; '' without one.      *)
AutoMapGroup(d, i) ==
    LET hits == {k \in 1..Len(d.columns) : IsGroupLike(d.columns[k])}
    IN  IF hits = {} THEN ""
        ELSE StrCell(d.rows[i][CHOOSE k \in hits : \A j \in hits : j <= k])

(* The dict built for row i.  None of the labels of the model holds 'sub'  *)
(* or 'fund', so the auto-map loop leaves those two defaults; the key      *)
(* 'L3_Group', always '', is left out.                                     *)
ProcessedRow(d, i, r) ==
    Row(IF r.unit_col # NoColumn THEN Cell(d, i, r.unit_col) ELSE "Main Unit",
        Cell(d, i, r.name_col),
        safe_float(Cell(d, i, r.cy_col)),
        IF r.py_col # NoColumn THEN safe_float(Cell(d, i, r.py_col)) ELSE 0,
        AutoMapGroup(d, i), "", "General")

(***************************************************************************)
(* DataManager.load_tb on the frame read from the file.  The result is     *)
(* the pair (data, error), data = NoResult standing for None, with the     *)
(* history of the call: the columns resolved, what _validate_dataframe     *)
(* returned if it was called, and the number of rows processed.            *)
(***************************************************************************)
LoadResult(data, error, resolved, validation, processed) ==
    [by |-> "load_tb", data |-> data, error |-> error, resolved |-> resolved,
     validation |-> validation, processed |-> processed]

load_tb(d) ==
    LET r == ResolveColumns(d.columns)
    IN  IF r.name_col = NoColumn \/ r.cy_col = NoColumn
        THEN LoadResult(NoResult, ColumnError, r, NoResult, 0)
        ELSE LET v == validate_dataframe(d, r.name_col, r.cy_col, r.py_col)
             IN  IF v.raised # ""
                 THEN LoadResult(NoResult, "Error loading file", r, v, 0)
                 ELSE IF ~v.ok
                 THEN LoadResult(NoResult, "Validation failed", r, v, 0)
                 ELSE LoadResult([rows |-> [i \in 1..Len(d.rows) |-> ProcessedRow(d, i, r)]],
                                 "", r, v, Len(d.rows))

(***************************************************************************)
(* SpecLoad: load_tb called once on a file with one to MaxColumns distinct *)
(* labels and up to MaxLoadRows rows.  A row holds one name under every    *)
(* ledger-name label, one amount under every other amount label and one    *)
(* unit under the unit label.                                              *)
(***************************************************************************)
RowSeeds == { [name |-> "Cash", amount |-> "100", unit |-> "A"],
              [name |-> "Bank", amount |-> "abc", unit |-> "B"] }

SeedCell(seed, column) ==
    IF IsNameLike(column) THEN seed.name
    ELSE IF IsAmountLike(column) THEN seed.amount
    ELSE seed.unit

HeaderRows ==
    {columns \in SeqsUpTo(HeaderSamples, MaxColumns) :
        /\ columns # <<>>
        /\ \A j, k \in 1..Len(columns) : j # k => columns[j] # columns[k]}

LoadInit ==
    /\ df \in {DataFrame(columns,
                         [i \in 1..Len(seeds) |->
                             [k \in 1..Len(columns) |-> SeedCell(seeds[i], columns[k])]]) :
                  columns \in HeaderRows, seeds \in SeqsUpTo(RowSeeds, MaxLoadRows)}
    /\ sched_lines = NoResult /\ guj_issues = NoResult /\ load_result = NoResult
    /\ amount_check = NoResult /\ ppe_records = NoResult /\ LateIdle
    /\ TableIdle /\ UnitIdle /\ CalcIdle /\ LockIdle /\ OutIdle /\ HistIdle

LoadTb ==
    /\ load_result = NoResult
    /\ load_result' = load_tb(df)
    /\ UNCHANGED <<lateVars, appVars, sched_lines, guj_issues, df, amount_check, ppe_records>>

LoadNext == LoadTb

SpecLoad == LoadInit /\ [][LoadNext]_vars

(* The positions of the amount-like labels, and of those carrying a tag. *)
CandidatePositions == {k \in 1..Len(df.columns) : IsAmountLike(df.columns[k])}
TaggedPositions ==
    {k \in CandidatePositions : HasCyTag(df.columns[k]) \/ HasPyTag(df.columns[k])}
CandidateAt(n) ==
    IF Cardinality(CandidatePositions) >= n
    THEN df.columns[KthOf(CandidatePositions, n)] ELSE NoColumn

(***************************************************************************)
(* C18: when no amount-like column carries a current-year or prior-year    *)
(* tag, the first amount-like candidate in header order is the             *)
(* current-year column, the second the prior-year column, and every        *)
(* further candidate is ignored.                                           *)
(***************************************************************************)
C18_UntaggedTieBreak ==
    (load_result # NoResult /\ TaggedPositions = {}) =>
        /\ load_result.resolved.cy_col = CandidateAt(1)
        /\ load_result.resolved.py_col = CandidateAt(2)

(* Three untagged candidates after the name column, and the file loaded. *)
C18_Witness ==
    /\ load_result # NoResult
    /\ df.columns = <<"Ledger Name", "Amount", "Debit", "Closing Balance">>
    /\ load_result.resolved.cy_col = "Amount"
    /\ load_result.resolved.py_col = "Debit"
    /\ load_result.data # NoResult
    /\ Len(load_result.data.rows) = 1
    /\ load_result.data.rows[1].Amount_CY = 100

(***************************************************************************)
(* C19: load_tb fails with the column-resolution error, returning no rows, *)
(* if and only if the header has no ledger-name column or no amount        *)
(* column to take as current-year; in that case no row is validated and    *)
(* no row is processed.                                                    *)
(***************************************************************************)
C19_ColumnResolutionError ==
    load_result # NoResult =>
        /\ (load_result.error = ColumnError)
              <=> (\/ ~\E k \in 1..Len(df.columns) : IsNameLike(df.columns[k])
                   \/ CandidatePositions = {})
        /\ (load_result.error = ColumnError)
              => (/\ load_result.data = NoResult
                  /\ load_result.validation = NoResult
                  /\ load_result.processed = 0)

(* A file with a row but no ledger-name column. *)
C19_Witness ==
    /\ load_result # NoResult
    /\ df.columns = <<"Unit", "Amount">>
    /\ Len(df.rows) = 1
    /\ load_result.error = ColumnError
    /\ load_result.data = NoResult

(***************************************************************************)
(* npo_config.py: DEPRECIATION_RATES, in percent.  No function of the      *)
(* program reads the table.                                                *)
(***************************************************************************)
DEPRECIATION_RATES ==
    ("Immovable Properties" :> 10) @@ ("Movable Properties" :> 15) @@ ("Vehicles" :> 15) @@
    ("Furniture" :> 10) @@ ("Computers" :> 40) @@ ("Intangible Assets" :> 25)

(***************************************************************************)
(* SpecPpe: the fixed-assets tree of the schedules tab and the asset       *)
(* records generate() builds from it.  The tree has seven columns, so      *)
(* every row passes len(values) >= 7; each cell is copied as it stands.    *)
(***************************************************************************)
PpeSamples ==
    { AssetRecord("New Asset", "0", "0", "0", "0", "0"),
      AssetRecord("Vehicles", "1000", "500", "200", "0", "0"),
      AssetRecord("Vehicles", "1000", "500", "200", "0", "195"),
      AssetRecord("Office Computers", "1000", "0", "0", "0", "150") }

PpeInit ==
    /\ map_rows = <<>> /\ ppe_tree = <<>> /\ fund_tree = <<>>
    /\ CalcIdle /\ UnitIdle /\ LockIdle /\ OutIdle /\ HistIdle /\ ExtIdle /\ LateIdle

(* "Add Asset" inserts ("New Asset", 0, 0, 0, 0, 0, 0). *)
AddAsset ==
    /\ Len(ppe_tree) < MaxAssets
    /\ ppe_tree' = Append(ppe_tree, AssetRecord("New Asset", "0", "0", "0", "0", "0"))
    /\ UNCHANGED <<lateVars, extVars, calcVars, map_rows, fund_tree, unitVars, lockVars, outVars,
                   histVars>>

(* The cells of record i are edited (double click, Save). *)
EditAsset ==
    \E i \in 1..Len(ppe_tree) : \E r \in PpeSamples :
        /\ r # ppe_tree[i]
        /\ ppe_tree' = [ppe_tree EXCEPT ![i] = r]
        /\ UNCHANGED <<lateVars, extVars, calcVars, map_rows, fund_tree, unitVars, lockVars, outVars,
                       histVars>>

(* "Delete Selected" with record i selected. *)
DeleteAsset ==
    \E i \in 1..Len(ppe_tree) :
        /\ ppe_tree' = [k \in 1..(Len(ppe_tree) - 1) |->
                           IF k < i THEN ppe_tree[k] ELSE ppe_tree[k + 1]]
        /\ UNCHANGED <<lateVars, extVars, calcVars, map_rows, fund_tree, unitVars, lockVars, outVars,
                       histVars>>

(* generate(): the loop over ppe_tree.get_children() that builds ppe. *)
GenerateCollectPpe ==
    /\ ppe_records' = [records |-> ppe_tree]
    /\ UNCHANGED <<lateVars, appVars, sched_lines, guj_issues, df, load_result, amount_check>>

PpeNext == AddAsset \/ EditAsset \/ DeleteAsset \/ GenerateCollectPpe

SpecPpe == PpeInit /\ [][PpeNext]_vars

(* The rates a record may be depreciated at: those of the table and the    *)
(* 15% fallback.                                                           *)
RatesPercent == {DEPRECIATION_RATES[c] : c \in DOMAIN DEPRECIATION_RATES} \cup {15}

(***************************************************************************)
(* C20: for every asset record the current-year depreciation is            *)
(* (opening gross value + additions - deletions) * applicable rate; for    *)
(* opening 1000, additions 500, deletions 200 and rate 0.15 it is 195.00.  *)
(* Amounts are whole, so rate percent times the base is the figure in      *)
(* hundredths, exactly.                                                    *)
(***************************************************************************)
C20_DepreciationComputed ==
    ppe_records # NoResult =>
        \A i \in 1..Len(ppe_records.records) :
            LET r == ppe_records.records[i]
                base == ToNumeric(r.Gross_Op) + ToNumeric(r.Additions) - ToNumeric(r.Deletions)
            IN  /\ \E rate \in RatesPercent : 100 * ToNumeric(r.Dep_Year) = rate * base
                /\ (base = 1300 /\ r.Asset_Name = "Vehicles") => ToNumeric(r.Dep_Year) = 195

(* The asset names of the samples that hold a category of the rate table   *)
(* as a case-insensitive substring.                                        *)
NameHoldsCategory ==
    { <<"Vehicles", "Vehicles">>, <<"Office Computers", "Computers">> }

(* The rate, in percent, that the rule of matching the asset name against  *)
(* the rate table gives: the matching category's, 15 when none matches.    *)
RateByName(name) ==
    LET matching == {c \in DOMAIN DEPRECIATION_RATES : <<name, c>> \in NameHoldsCategory}
    IN  IF matching = {} THEN 15 ELSE DEPRECIATION_RATES[CHOOSE c \in matching : TRUE]

(***************************************************************************)
(* C21: the depreciation rate of an asset record is the rate of the        *)
(* rate-table category its name holds (case-insensitive substring), 15%    *)
(* when no category matches: the year's depreciation of every record that  *)
(* generate() builds is that rate of its gross value.                      *)
(***************************************************************************)
C21_RateMatchedByName ==
    ppe_records # NoResult =>
        \A i \in 1..Len(ppe_records.records) :
            LET r == ppe_records.records[i]
                base == ToNumeric(r.Gross_Op) + ToNumeric(r.Additions) - ToNumeric(r.Deletions)
            IN  100 * ToNumeric(r.Dep_Year) = RateByName(r.Asset_Name) * base

(* The five sections of the report that are not the foreign-contribution   *)
(* result, with the fixed identifiers.                                     *)
NamedSections ==
    {"summary", "section_11", "fund_classification", "gujarat_compliance", "ica_compliance"}

SectionsAsFixed(report) ==
    /\ NamedSections \subseteq DOMAIN report
    /\ report.summary.surplus_deficit =
           report.summary.total_income - report.summary.total_expenses
    /\ report.gujarat_compliance.forms_required = <<"Form 10", "Form 11", "Form 12">>
    /\ report.ica_compliance.schedules_required = <<"I", "II", "III", "IV", "V", "VI">>
    /\ report.ica_compliance.notes_required

(***************************************************************************)
(* C22: every report has the fixed top-level sections: summary totals with *)
(* surplus_deficit = income_total - expense_total, Section 11 result, fund *)
(* classification, a foreign-contribution result, jurisdiction issues with *)
(* the required forms, and the schedule identifiers with the               *)
(* notes-required flag.                                                    *)
(***************************************************************************)
C22_FixedSections ==
    compliance_report # NoResult =>
        /\ SectionsAsFixed(compliance_report)
        /\ \E section \in DOMAIN compliance_report : section \notin NamedSections

(* The sections other than the foreign-contribution result are in every    *)
(* report.                                                                 *)
C22_SectionsButForeign ==
    compliance_report # NoResult => SectionsAsFixed(compliance_report)

(***************************************************************************)
(* Fractions, for the ratios of calculate_program_effectiveness: a pair    *)
(* num/den in lowest terms with den > 0.  Python computes them in double   *)
(* precision; the model computes them exactly.                             *)
(***************************************************************************)
RECURSIVE GCD(_, _)
GCD(a, b) == IF b = 0 THEN a ELSE GCD(b, a % b)

Magnitude(n) == IF n < 0 THEN -n ELSE n

Rat(n, d) ==
    LET g == GCD(Magnitude(n), Magnitude(d))
        sign == IF d < 0 THEN -1 ELSE 1
    IN  [num |-> (sign * n) \div g, den |-> (sign * d) \div g]

Whole(n) == [num |-> n, den |-> 1]
RatMul(x, y) == Rat(x.num * y.num, x.den * y.den)
RatSub(x, y) == Rat(x.num * y.den - y.num * x.den, x.den * y.den)
RatGeq(x, y) == x.num * y.den >= y.num * x.den
RatMin(x, y) == IF RatGeq(x, y) THEN y ELSE x

MaxBeneficiaries == 2

EmptyDict == [empty |-> TRUE]

(* 'Simple scoring' without the cap at 100. *)
EfficiencyScoreUncapped(program_ratio) == RatMul(program_ratio, Rat(12, 10))

(* efficiency_score: min(100, program_ratio * 1.2) *)
EfficiencyScore(program_ratio) == RatMin(Whole(100), RatMul(program_ratio, Rat(12, 10)))

(***************************************************************************)
(* ComplianceCalculator.calculate_program_effectiveness.  beneficiaries 0  *)
(* stands for both None and 0, which 'if beneficiaries:' treats alike.     *)
(***************************************************************************)
calculate_program_effectiveness(program_expenses, total_expenses, beneficiaries) ==
    IF total_expenses = 0 THEN EmptyDict
    ELSE LET program_ratio == RatMul(Rat(program_expenses, total_expenses), Whole(100))
             admin_ratio == RatSub(Whole(100), program_ratio)
             effectiveness_dict ==
                 [ program_expenditure_ratio |-> program_ratio,
                   administrative_expenditure_ratio |-> admin_ratio,
                   compliance_status |-> RatGeq(program_ratio, Whole(85)),
                   efficiency_score |-> EfficiencyScore(program_ratio) ]
         IN  IF beneficiaries # 0
             THEN [ program_expenditure_ratio |-> program_ratio,
                    administrative_expenditure_ratio |-> admin_ratio,
                    compliance_status |-> RatGeq(program_ratio, Whole(85)),
                    efficiency_score |-> EfficiencyScore(program_ratio),
                    cost_per_beneficiary |->
                        IF beneficiaries > 0 THEN Rat(program_expenses, beneficiaries)
                        ELSE Whole(0) ]
             ELSE effectiveness_dict

(***************************************************************************)
(* SpecEff: one call of calculate_program_effectiveness on expense totals  *)
(* of either sign and a beneficiary count.                                 *)
(***************************************************************************)
EffInit ==
    /\ TableIdle /\ UnitIdle /\ CalcIdle /\ LockIdle /\ OutIdle /\ HistIdle /\ ExtIdle /\ LateIdle

CalculateProgramEffectiveness ==
    /\ effectiveness = NoResult
    /\ \E program_expenses \in 0..MaxAmount, total_expenses \in -1..MaxAmount,
          beneficiaries \in -1..MaxBeneficiaries :
          effectiveness' =
              [ program_expenses |-> program_expenses, total_expenses |-> total_expenses,
                beneficiaries |-> beneficiaries,
                returned |-> calculate_program_effectiveness(program_expenses, total_expenses,
                                                             beneficiaries) ]
    /\ UNCHANGED <<appVars, extVars, form_10b, tb_check>>

EffNext == CalculateProgramEffectiveness

SpecEff == EffInit /\ [][EffNext]_vars

MaxGapRows == 2

GapHeaders ==
    { <<"Ledger Name", "Amount">>,
      <<"Ledger Name", "Amount", "Group">>,
      <<"Group", "Ledger Name", "Amount CY", "Prev Amount">> }

GapSeeds ==
    { [name |-> "Cash", amount |-> "100", unit |-> "A", group |-> "Cash and Bank Balances"],
      [name |-> "Fund", amount |-> "100", unit |-> "A", group |-> "Corpus Fund"],
      [name |-> "Bank", amount |-> "100", unit |-> "A", group |-> ""],
      [name |-> "Misc", amount |-> "0", unit |-> "A", group |-> "Sundry"] }

GapCell(seed, column) == IF IsGroupLike(column) THEN seed.group ELSE SeedCell(seed, column)

(* Entry.insert(0, value): the text of a float. *)
FloatText(value) == CHOOSE text \in {"0.0", "100.0"} : Numerals[text] = value

AsTyped(row) == [row EXCEPT !.Amount_CY = FloatText(row.Amount_CY),
                            !.Amount_PY = FloatText(row.Amount_PY)]

GapInit ==
    /\ df \in {DataFrame(columns,
                         [i \in 1..Len(seeds) |->
                             [k \in 1..Len(columns) |-> GapCell(seeds[i], columns[k])]]) :
                  columns \in GapHeaders, seeds \in SeqsUpTo(GapSeeds, MaxGapRows)}
    /\ sched_lines = NoResult /\ guj_issues = NoResult /\ load_result = NoResult
    /\ amount_check = NoResult /\ ppe_records = NoResult /\ LateIdle
    /\ TableIdle /\ UnitIdle /\ CalcIdle /\ LockIdle /\ OutIdle /\ HistIdle

(* validate(): validate_tb_data on the loaded rows as the table holds them. *)
ValidateTbData ==
    /\ load_result # NoResult /\ load_result.data # NoResult
    /\ tb_check = NoResult
    /\ LET data == [i \in 1..Len(load_result.data.rows) |-> AsTyped(load_result.data.rows[i])]
       IN  tb_check' = [data |-> data, ok |-> validate_tb_data(data)]
    /\ UNCHANGED <<appVars, extVars, effectiveness, form_10b>>

GapNext == LoadTb \/ ValidateTbData

SpecGap == GapInit /\ [][GapNext]_vars

(***************************************************************************)
(* C24: a row with no canonical group match is never the cause of an       *)
(* ingestion or validation failure: load_tb keeps every row of a file it   *)
(* accepts, and it accepts a file whatever its group cells; the            *)
(* validation of a row set fails only if some row would fail with a        *)
(* canonical group too.                                                    *)
(***************************************************************************)
C24_UnclassifiedNeverFatal ==
    /\ (load_result # NoResult /\ df.rows # <<>>) =>
           \/ /\ load_result.data # NoResult
              /\ Len(load_result.data.rows) = Len(df.rows)
           \/ load_result.validation.errors # <<>>
    /\ tb_check # NoResult =>
           ((\A i \in 1..Len(tb_check.data) :
                 RowValid([tb_check.data[i] EXCEPT !.Group_Head = "Corpus Fund"]))
               => tb_check.ok)

(* load_tb keeps the rows without a canonical group. *)
C24_LoadKeepsUnclassified ==
    (load_result # NoResult /\ df.rows # <<>>) =>
        \/ /\ load_result.data # NoResult
           /\ Len(load_result.data.rows) = Len(df.rows)
        \/ load_result.validation.errors # <<>>

(***************************************************************************)
(* C25: at most one report generation is running at any time: between the  *)
(* start of a generate thread and the stop_progress queued by it, no       *)
(* second generate thread is started.  A generation is running while its   *)
(* thread has not run or its stop_progress is still queued.                *)
(***************************************************************************)
C25_AtMostOneGeneration == gen_threads + stop_pending <= 1

(***************************************************************************)
(* C26: after a validate() call that did not succeed (a structural error   *)
(* from validate_tb_data, or a balance difference of 1 or more)            *)
(* is_validated is false, so that start_generation refuses, whatever       *)
(* earlier validate calls found; is_validated is true only after a         *)
(* validate() call that found the balance difference below 1.              *)
(***************************************************************************)
C26_FailedValidateLocks ==
    last_validate \in {"structural", "unbalanced"} => ~is_validated

(* The same for the balance test alone. *)
C26_UnbalancedLocks == last_validate = "unbalanced" => ~is_validated

(* is_validated is set by a successful validate() only. *)
C26_SetByValidateOnly ==
    [][(is_validated' /\ ~is_validated) => last_validate' = "validated"]_vars

(***************************************************************************)
(* C27: whenever column resolution succeeds, the ledger-name column, the   *)
(* current-year column and the prior-year column (if any) are pairwise     *)
(* distinct columns of the input.                                          *)
(***************************************************************************)
C27_ResolvedColumnsDistinct ==
    (load_result # NoResult /\ load_result.error # ColumnError) =>
        LET r == load_result.resolved
        IN  /\ {r.name_col, r.cy_col} \subseteq ColumnSet(df)
            /\ r.py_col # NoColumn => r.py_col \in ColumnSet(df)
            /\ r.name_col # r.cy_col
            /\ r.py_col # r.name_col
            /\ r.py_col # r.cy_col

(* The resolved columns are columns of the input, and the name column is   *)
(* distinct from the amount columns when no label is both name-like and    *)
(* amount-like.                                                            *)
C27_NameApartFromAmounts ==
    (load_result # NoResult /\ load_result.error # ColumnError
        /\ \A k \in 1..Len(df.columns) : ~(IsNameLike(df.columns[k]) /\ IsAmountLike(df.columns[k])))
    =>  LET r == load_result.resolved
        IN  /\ {r.name_col, r.cy_col} \subseteq ColumnSet(df)
            /\ r.py_col # NoColumn => r.py_col \in ColumnSet(df)
            /\ r.name_col # r.cy_col
            /\ r.py_col # r.name_col

(* The report in the state was built on the rows the 10B calculator read:  *)
(* generate() reads the rows of the filter's unit, as refresh_10b does;    *)
(* run_compliance_check reads all rows.                                    *)
SameRowsAs10b ==
    \/ compliance_text # "report"
    \/ collect_mapping_data(map_rows, unit_var) = collect_mapping_data(map_rows, Consolidated)

(***************************************************************************)
(* C28: for the same ledger rows and asset records, the 85% verdict and    *)
(* the total application of the 10B calculator equal                       *)
(* compliance_85_percent and total_application of the report's Section 11  *)
(* result.                                                                 *)
(***************************************************************************)
C28_CalculatorsAgree ==
    (form_10b # NoResult /\ compliance_report # NoResult /\ SameRowsAs10b) =>
        /\ form_10b.compliance_85 = compliance_report.section_11.compliance_85_percent
        /\ form_10b.total_application = compliance_report.section_11.total_application

(* Without asset additions the two calculators agree. *)
C28_AgreeWithoutAdditions ==
    (form_10b # NoResult /\ compliance_report # NoResult /\ SameRowsAs10b
        /\ CapitalAdditions(ppe_tree) = 0) =>
        /\ form_10b.compliance_85 = compliance_report.section_11.compliance_85_percent
        /\ form_10b.total_application = compliance_report.section_11.total_application

(***************************************************************************)
(* C29: after load_csv has loaded n records, the mapping table holds       *)
(* exactly those n rows, is_validated is false and the generate button is  *)
(* disabled, whatever the state before the load and whatever the user      *)
(* answered to the clear confirmation.                                     *)
(***************************************************************************)
C29_LoadReplacesTable ==
    loaded # NoResult =>
        /\ collect_mapping_data(map_rows, Consolidated) = loaded.records
        /\ ~loaded.is_validated
        /\ loaded.btn_gen = "disabled"

(***************************************************************************)
(* calculate_section_11_compliance on amounts with cents.  Python's float  *)
(* is the IEEE double; on whole amounts, the inputs of SpecCalc, its       *)
(* products and differences are exact, on amounts with cents they are      *)
(* rounded.  A double x is the pair [n, e] with                            *)
(*     x = n / 10^4 + e / (10^4 * 2^60),                                   *)
(* n the decimal figure in ten-thousandths and e the rounding error, so    *)
(* that doubles compare by n first and by e among equal n.                 *)
(*   DoubleOfCents[c]  float() of the text of c cents                      *)
(*   TimesDot85[c]     income * 0.85 for income = DoubleOfCents[c]         *)
(*   TimesDot15[c]     income * accumulation_rate, the default 0.15        *)
(***************************************************************************)
DoubleOfCents ==
    (16 :> [n |-> 1600, e |-> 38400]) @@ (17 :> [n |-> 1700, e |-> 140800]) @@ (18 :> [n |-> 1800, e |-> -76800]) @@
    (20 :> [n |-> 2000, e |-> 128000]) @@ (33 :> [n |-> 3300, e |-> 179200]) @@ (34 :> [n |-> 3400, e |-> 281600]) @@
    (35 :> [n |-> 3500, e |-> -256000]) @@ (40 :> [n |-> 4000, e |-> 256000]) @@ (50 :> [n |-> 5000, e |-> 0]) @@
    (51 :> [n |-> 5100, e |-> 102400]) @@ (52 :> [n |-> 5200, e |-> 204800]) @@ (60 :> [n |-> 6000, e |-> -256000]) @@
    (67 :> [n |-> 6700, e |-> 460800]) @@ (68 :> [n |-> 6800, e |-> 563200]) @@ (69 :> [n |-> 6900, e |-> -614400]) @@
    (80 :> [n |-> 8000, e |-> 512000]) @@ (84 :> [n |-> 8400, e |-> -358400]) @@ (85 :> [n |-> 8500, e |-> -256000]) @@
    (86 :> [n |-> 8600, e |-> -153600]) @@ (100 :> [n |-> 10000, e |-> 0]) @@ (101 :> [n |-> 10100, e |-> 102400]) @@
    (102 :> [n |-> 10200, e |-> 204800]) @@ (103 :> [n |-> 10300, e |-> 307200]) @@ (118 :> [n |-> 11800, e |-> -716800]) @@
    (119 :> [n |-> 11900, e |-> -614400]) @@ (120 :> [n |-> 12000, e |-> -512000]) @@ (135 :> [n |-> 13500, e |-> 1024000]) @@
    (136 :> [n |-> 13600, e |-> 1126400]) @@ (137 :> [n |-> 13700, e |-> 1228800]) @@ (140 :> [n |-> 14000, e |-> -1024000]) @@
    (152 :> [n |-> 15200, e |-> 204800]) @@ (153 :> [n |-> 15300, e |-> 307200]) @@ (154 :> [n |-> 15400, e |-> 409600]) @@
    (160 :> [n |-> 16000, e |-> 1024000]) @@ (169 :> [n |-> 16900, e |-> -614400]) @@ (170 :> [n |-> 17000, e |-> -512000]) @@
    (171 :> [n |-> 17100, e |-> -409600]) @@ (180 :> [n |-> 18000, e |-> 512000]) @@ (186 :> [n |-> 18600, e |-> 1126400]) @@
    (187 :> [n |-> 18700, e |-> 1228800]) @@ (188 :> [n |-> 18800, e |-> -1228800]) @@ (200 :> [n |-> 20000, e |-> 0]) @@
    (203 :> [n |-> 20300, e |-> -2252800]) @@ (204 :> [n |-> 20400, e |-> 409600]) @@ (205 :> [n |-> 20500, e |-> -2048000]) @@
    (220 :> [n |-> 22000, e |-> 2048000]) @@ (221 :> [n |-> 22100, e |-> -409600]) @@ (222 :> [n |-> 22200, e |-> 2252800]) @@
    (237 :> [n |-> 23700, e |-> 1228800]) @@ (238 :> [n |-> 23800, e |-> -1228800]) @@ (239 :> [n |-> 23900, e |-> 1433600]) @@
    (240 :> [n |-> 24000, e |-> -1024000]) @@ (254 :> [n |-> 25400, e |-> 409600]) @@ (255 :> [n |-> 25500, e |-> -2048000]) @@
    (256 :> [n |-> 25600, e |-> 614400]) @@ (260 :> [n |-> 26000, e |-> 1024000]) @@ (271 :> [n |-> 27100, e |-> -409600]) @@
    (272 :> [n |-> 27200, e |-> 2252800]) @@ (273 :> [n |-> 27300, e |-> -204800]) @@ (280 :> [n |-> 28000, e |-> -2048000]) @@
    (288 :> [n |-> 28800, e |-> -1228800]) @@ (289 :> [n |-> 28900, e |-> 1433600]) @@ (290 :> [n |-> 29000, e |-> -1024000]) @@
    (300 :> [n |-> 30000, e |-> 0]) @@ (305 :> [n |-> 30500, e |-> -2048000]) @@ (306 :> [n |-> 30600, e |-> 614400]) @@
    (307 :> [n |-> 30700, e |-> -1843200]) @@ (320 :> [n |-> 32000, e |-> 2048000]) @@ (322 :> [n |-> 32200, e |-> 2252800]) @@
    (323 :> [n |-> 32300, e |-> -204800]) @@ (324 :> [n |-> 32400, e |-> 2457600]) @@ (339 :> [n |-> 33900, e |-> 1433600]) @@
    (340 :> [n |-> 34000, e |-> -1024000]) @@ (341 :> [n |-> 34100, e |-> 1638400]) @@ (360 :> [n |-> 36000, e |-> 1024000]) @@
    (380 :> [n |-> 38000, e |-> -2048000]) @@ (400 :> [n |-> 40000, e |-> 0])

TimesDot85 ==
    (20 :> [n |-> 1700, e |-> 140800]) @@ (40 :> [n |-> 3400, e |-> 281600]) @@ (60 :> [n |-> 5100, e |-> 102400]) @@
    (80 :> [n |-> 6800, e |-> 563200]) @@ (100 :> [n |-> 8500, e |-> -256000]) @@ (120 :> [n |-> 10200, e |-> 204800]) @@
    (140 :> [n |-> 11900, e |-> -614400]) @@ (160 :> [n |-> 13600, e |-> 1126400]) @@ (180 :> [n |-> 15300, e |-> 307200]) @@
    (200 :> [n |-> 17000, e |-> -512000]) @@ (220 :> [n |-> 18700, e |-> 1228800]) @@ (240 :> [n |-> 20400, e |-> 409600]) @@
    (260 :> [n |-> 22100, e |-> -409600]) @@ (280 :> [n |-> 23800, e |-> -1228800]) @@ (300 :> [n |-> 25500, e |-> -2048000]) @@
    (320 :> [n |-> 27200, e |-> 2252800]) @@ (340 :> [n |-> 28900, e |-> -3686400]) @@ (360 :> [n |-> 30600, e |-> 614400]) @@
    (380 :> [n |-> 32300, e |-> -204800]) @@ (400 :> [n |-> 34000, e |-> -1024000])

TimesDot15 ==
    (20 :> [n |-> 300, e |-> -12800]) @@ (40 :> [n |-> 600, e |-> -25600]) @@ (60 :> [n |-> 900, e |-> -38400]) @@
    (80 :> [n |-> 1200, e |-> -51200]) @@ (100 :> [n |-> 1500, e |-> -64000]) @@ (120 :> [n |-> 1800, e |-> -76800]) @@
    (140 :> [n |-> 2100, e |-> -89600]) @@ (160 :> [n |-> 2400, e |-> -102400]) @@ (180 :> [n |-> 2700, e |-> 204800]) @@
    (200 :> [n |-> 3000, e |-> -128000]) @@ (220 :> [n |-> 3300, e |-> 179200]) @@ (240 :> [n |-> 3600, e |-> -153600]) @@
    (260 :> [n |-> 3900, e |-> 153600]) @@ (280 :> [n |-> 4200, e |-> -179200]) @@ (300 :> [n |-> 4500, e |-> -512000]) @@
    (320 :> [n |-> 4800, e |-> -204800]) @@ (340 :> [n |-> 5100, e |-> 102400]) @@ (360 :> [n |-> 5400, e |-> 409600]) @@
    (380 :> [n |-> 5700, e |-> -563200]) @@ (400 :> [n |-> 6000, e |-> -256000])

DGeq(x, y) == x.n > y.n \/ (x.n = y.n /\ x.e >= y.e)

(* x - y for y/2 <= x <= 2y, where the difference of two doubles is a      *)
(* double and no rounding takes place.                                     *)
DMinus(x, y) == [n |-> x.n - y.n, e |-> x.e - y.e]

(* The entries of the result that the two flags rest on, for one expense   *)
(* item and capital_exp 0: sum([x]) and x + 0 are x.                       *)
section_11_in_doubles(income_cents, expense_cents) ==
    LET income == DoubleOfCents[income_cents]
        total_application == DoubleOfCents[expense_cents]
        required_application == TimesDot85[income_cents]
        max_accumulation == TimesDot15[income_cents]
        actual_accumulation == DMinus(income, total_application)
    IN  [ total_application |-> total_application,
          required_application |-> required_application,
          compliance_85_percent |-> DGeq(total_application, required_application),
          accumulation_allowed |-> max_accumulation,
          actual_accumulation |-> actual_accumulation,
          accumulation_within_limit |-> DGeq(max_accumulation, actual_accumulation) ]

(***************************************************************************)
(* SpecDouble: one call on an income of 0.20 to 4.00 in steps of 0.20 and  *)
(* an application one cent below, at, or one cent above 85% of it, with    *)
(* the default accumulation rate.  call holds the amounts in cents.        *)
(***************************************************************************)
DoubleCalls ==
    { [income |-> income, expenses |-> <<(income * 85) \div 100 + offset>>,
       capital_exp |-> 0, accumulation_rate |-> NoRate] :
          income \in DOMAIN TimesDot85, offset \in {-1, 0, 1} }

DoubleInit ==
    /\ call \in DoubleCalls
    /\ compliance_status = NoResult
    /\ TableIdle /\ UnitIdle /\ LockIdle /\ OutIdle /\ HistIdle /\ ExtIdle /\ LateIdle

CalculateInDoubles ==
    /\ compliance_status = NoResult
    /\ compliance_status' = section_11_in_doubles(call.income, call.expenses[1])
    /\ UNCHANGED <<lateVars, extVars, call, tableVars, unitVars, lockVars, outVars, histVars>>

DoubleNext == CalculateInDoubles

SpecDouble == DoubleInit /\ [][DoubleNext]_vars

(***************************************************************************)
(* C30: with the default accumulation rate 0.15 the two flags of the       *)
(* result agree: accumulation_within_limit is true if and only if          *)
(* compliance_85_percent is true, for every income and application total.  *)
(***************************************************************************)
C30_FlagsAgree ==
    compliance_status # NoResult =>
        (compliance_status.accumulation_within_limit
            <=> compliance_status.compliance_85_percent)

(* The same on whole amounts, under SpecCalc. *)
C30_FlagsAgreeWholeAmounts ==
    (Returned /\ ~call.accumulation_rate.given) =>
        (compliance_status.accumulation_within_limit
            <=> compliance_status.compliance_85_percent)

====
